---------------------------- MODULE Spec2Model ----------------------------
(***************************************************************************)
(* SADEWA drug-interaction analysis: a model of the client-side engine.   *)
(*                                                                         *)
(*   Spec           apiService.analyzeInteractionsEnhanced                 *)
(*                  (services/api.js): database check, AI call, merge,     *)
(*                  summary, fallback.                                     *)
(*   SpecRisk       getOverallRiskLevel / getSeverityIcon                  *)
(*                  (components/InteractionResults.jsx).                   *)
(*   SpecDashboard  the Dashboard page's handlers (pages/Dashboard.jsx).   *)
(*                                                                         *)
(* Text is a tuple of one-character strings, so that toLowerCase,          *)
(* includes and split act on the characters as they do in the code.        *)
(* Numbers that are fractions in the code (confidences) are hundredths.    *)
(* An optional value (a field that may be absent, a null body) is the      *)
(* empty tuple when absent and a one-element tuple when present.           *)
(***************************************************************************)
EXTENDS Integers, Sequences, FiniteSets, TLC

VARIABLES
    \* ---- analyzeInteractionsEnhanced ----
    pc,             \* position in the async function
    payload,        \* its argument
    drugNames,      \* const drugNames
    dbOutcome,      \* "pending" | "ok" | "failed": how the database check ended
    dbInteractions, \* let dbInteractions
    aiOutcome,      \* "pending" | "ok" | "failed": how the AI call ended
    aiAnalysis,     \* let aiAnalysis (optional: a null body is None)
    result,         \* what the call returned (optional)
    via,            \* "none" | "merged" | "fallback": which return was taken
    dbRequests,     \* GET /api/drugs/check-interactions issued
    aiRequests,     \* POST /api/analyze-interactions issued
    \* ---- InteractionResults: overall risk ----
    analysis,       \* the component's analysis state (its warnings)
    riskLevel,      \* what getOverallRiskLevel returned (optional)
    riskIcon,       \* what getSeverityIcon(getOverallRiskLevel()) chose (optional)
    propPatient,    \* the component's patient prop (optional)
    propMedications,\* the component's medications prop
    loading,        \* the component's loading state
    resultsError,   \* the component's error state (optional)
    resultsCalls,   \* how many times the component's handleAnalyze was invoked
    \* ---- Dashboard ----
    selectedPatient,    \* optional patient
    selectedDiagnosis,  \* optional diagnosis
    medications,        \* list of medication entries
    interactionResults, \* optional analysis result
    isAnalyzing,
    error,              \* optional message
    pending,            \* analysis requests in flight
    sent,               \* how many POST /api/analyze-interactions were issued
    analyzeCalls,       \* how many times handleAnalyze has been invoked
    \* ---- drugService: interaction and condition checks ----
    kbPc,           \* "idle" | "interactions" | "conditions" | "done"
    kbDrugNames,    \* the drugNames argument
    kbIcdCodes,     \* the icdCodes argument
    kbData,         \* the data of the returned object (optional)
    kbRequests,     \* GET requests issued by the two checks
    \* ---- MedicationInput ----
    inputMedications,   \* the medications prop, as the parent keeps it
    inputErrors,        \* the component's errors state (a set of field names)
    inputClock,         \* Date.now()
    inputOps,           \* how many handlers have run
    \* ---- the analysis service behind POST /api/analyze-interactions ----
    cacheStore,     \* fingerprint cache: entries with key, expiresAt, value
    now,            \* the service's clock
    llmCalls,       \* external reasoning invocations made
    answers,        \* what the service answered, per request
    \* ---- Dashboard: loading a selected patient's medications ----
    loads,          \* GET current-medications requests in flight
    loadsSent,      \* how many were issued
    loadErrors,     \* how many failed
    \* ---- DiagnosisSearch ----
    searchTerm,     \* the text of the search input
    searchResults,  \* the diagnoses listed
    isSearching,
    isDropdownOpen,
    searchError,    \* the component's error state (optional)
    timers,         \* debounce timers set and neither fired nor cleared
    timerRef,       \* searchTimeoutRef.current (optional timer id)
    termEdits,      \* how many times searchTerm has changed
    icdPending,     \* GET /api/icd10/search requests in flight
    icdSent,        \* how many were issued
    \* ---- PatientList ----
    listSearchTerm, \* the text of the search input
    listTimers,     \* setTimeout timers set by handleSearch and not fired
    listNow,        \* time in ms
    lastKeyAt,      \* when the search input last changed (optional)
    keystrokes,     \* how many times the search input changed
    closelySpaced,  \* every change came less than 500 ms after the one before
    listFetched,    \* the search arguments the timers passed to fetchPatients
    listPending,    \* GET /api/patients/search requests in flight
    listLoading,
    listPatients,   \* the patients listed
    listError,      \* the component's error state ("" when none)
    \* ---- SaveDiagnosisButton ----
    showModal,
    notes,          \* the clinical notes typed into the modal
    saving,
    saveError,      \* the component's error state ("" when none)
    savePending,    \* POST save-diagnosis requests in flight
    savesSent,      \* how many were issued
    \* ---- Dashboard tabs and PatientRegistrationForm ----
    activeTab,
    showRegistrationForm,
    regLoading,     \* the form's loading state
    regError,       \* the form's error state ("" when none)
    regSuccess,     \* the form's success state
    regPending,     \* POST /api/patients requests in flight
    regTimers,      \* onSuccess calls waiting for their 1500 ms
    regSent,        \* how many POSTs were issued
    registered      \* how many onSuccess calls have run

enhVars == <<pc, payload, drugNames, dbOutcome, dbInteractions, aiOutcome,
             aiAnalysis, result, via, dbRequests, aiRequests>>
riskVars == <<analysis, riskLevel, riskIcon, propPatient, propMedications,
              loading, resultsError, resultsCalls>>
dashVars == <<selectedPatient, selectedDiagnosis, medications,
              interactionResults, isAnalyzing, error, pending, sent, analyzeCalls>>
kbVars == <<kbPc, kbDrugNames, kbIcdCodes, kbData, kbRequests>>
inputVars == <<inputMedications, inputErrors, inputClock, inputOps>>
cacheVars == <<cacheStore, now, llmCalls, answers>>
loadVars == <<loads, loadsSent, loadErrors>>
searchVars == <<searchTerm, searchResults, isSearching, isDropdownOpen,
                searchError, timers, timerRef, termEdits, icdPending, icdSent>>
listVars == <<listSearchTerm, listTimers, listNow, lastKeyAt, keystrokes,
              closelySpaced, listFetched, listPending, listLoading,
              listPatients, listError>>
saveVars == <<showModal, notes, saving, saveError, savePending, savesSent>>
regVars == <<activeTab, showRegistrationForm, regLoading, regError,
             regSuccess, regPending, regTimers, regSent, registered>>
uiVars == <<loadVars, searchVars, listVars, saveVars, regVars>>
notLoad == <<enhVars, riskVars, kbVars, inputVars, cacheVars, searchVars,
             listVars, saveVars, regVars>>
notSearch == <<enhVars, riskVars, dashVars, kbVars, inputVars, cacheVars,
               loadVars, listVars, saveVars, regVars>>
notList == <<enhVars, riskVars, dashVars, kbVars, inputVars, cacheVars,
             loadVars, searchVars, saveVars, regVars>>
\* what the save button and the registration form leave alone besides the
\* Dashboard
notSave == <<enhVars, riskVars, kbVars, inputVars, cacheVars, loadVars,
             searchVars, listVars>>
otherVars == <<kbVars, inputVars, cacheVars, uiVars>>
vars == <<enhVars, riskVars, dashVars, otherVars>>

-----------------------------------------------------------------------------
(* Optional values *)
None == <<>>
Some(x) == <<x>>
IsSome(o) == o # <<>>
Get(o) == o[1]

Min(S) == CHOOSE x \in S : \A y \in S : x <= y

RECURSIVE SumSeq(_)
SumSeq(s) == IF s = <<>> THEN 0 ELSE Head(s) + SumSeq(Tail(s))

(* Sequences over S of length at most n *)
SeqUpTo(S, n) == UNION {[1..k -> S] : k \in 0..n}

-----------------------------------------------------------------------------
(* Text *)

\* String.prototype.toLowerCase, on the letters the model's texts use
LowerChar(c) ==
    CASE c = "A" -> "a" [] c = "C" -> "c" [] c = "I" -> "i" [] c = "O" -> "o"
      [] c = "P" -> "p" [] c = "W" -> "w" [] c = "M" -> "m" [] c = "N" -> "n"
      [] c = "D" -> "d" [] c = "H" -> "h" [] c = "S" -> "s" [] OTHER -> c

ToLower(s) == [i \in 1..Len(s) |-> LowerChar(s[i])]

\* String.prototype.includes: needle occurs in hay as a contiguous run
Includes(hay, needle) ==
    \E i \in 0..(Len(hay) - Len(needle)) :
        SubSeq(hay, i + 1, i + Len(needle)) = needle

\* med.split(" ")[0]
SplitFirst(s) ==
    LET spaces == {i \in 1..Len(s) : s[i] = " "}
    IN  IF spaces = {} THEN s ELSE SubSeq(s, 1, Min(spaces) - 1)

Warfarin    == <<"W","a","r","f","a","r","i","n">>
Ibuprofen   == <<"I","b","u","p","r","o","f","e","n">>
Aspirin     == <<"A","s","p","i","r","i","n">>
Paracetamol == <<"P","a","r","a","c","e","t","a","m","o","l">>
Omeprazole  == <<"O","m","e","p","r","a","z","o","l","e">>
Clopidogrel == <<"C","l","o","p","i","d","o","g","r","e","l">>

\* `${med.name} ${med.dosage}`
MedString(name, dosage) == name \o <<" ">> \o dosage

Mg5   == <<"5","m","g">>
Mg400 == <<"4","0","0","m","g">>
Mg500 == <<"5","0","0","m","g">>


-----------------------------------------------------------------------------
(* analyzeInteractionsEnhanced: inputs *)

MaxDb == 2      \* longest interaction list the database check returns
MaxAi == 2      \* longest interaction list the AI analysis returns

DB_CONFIDENCE == 95          \* confidence: 0.95
AI_DEFAULT_CONFIDENCE == 80  \* aiAnalysis.confidence_score || 0.8
PLACEHOLDER_CONFIDENCE == 70 \* confidence_score: 0.7

UnavailableSummary == "AI analysis unavailable, using database interactions only."
UnavailableReasoning ==
    "Database-only analysis performed due to AI service unavailability."
NoInteractionsSummary ==
    "No significant drug interactions detected in both database and AI analysis."

\* payloads as Dashboard.handleAnalyze builds them
Payloads ==
    { [patient_id |-> "P001", new_medications |-> m] :
        m \in { <<MedString(Paracetamol, Mg500)>>,
                <<MedString(Warfarin, Mg5)>>,
                <<MedString(Warfarin, Mg5), MedString(Ibuprofen, Mg400)>> } }

\* rows GET /api/drugs/check-interactions may return
DbRows ==
    { [drug_a |-> Warfarin, drug_b |-> Ibuprofen, severity |-> "Major",
       description |-> "Increased bleeding risk with concurrent use",
       recommendation |-> "Avoid concurrent use."],
      [drug_a |-> Clopidogrel, drug_b |-> Omeprazole, severity |-> "Moderate",
       description |-> "Omeprazole may reduce effectiveness of Clopidogrel",
       recommendation |-> "Consider alternative PPI or H2 blocker."],
      [drug_a |-> Paracetamol, drug_b |-> Omeprazole, severity |-> "Minor",
       description |-> "Slightly delayed absorption",
       recommendation |-> "No action needed."] }

\* the body of a database check response: data.interactions may be absent
DbResponses == {None} \cup {Some(l) : l \in SeqUpTo(DbRows, MaxDb)}

\* interaction objects POST /api/analyze-interactions may return
AiRows ==
    { [medications |-> Some(<<ToLower(Ibuprofen), Warfarin>>), severity |-> "Major",
       description |-> "Bleeding risk", recommendation |-> "Avoid"],
      [medications |-> Some(<<Warfarin, Aspirin>>), severity |-> "Major",
       description |-> "Additive bleeding risk", recommendation |-> "Monitor INR"],
      [medications |-> Some(<<Aspirin, Paracetamol>>), severity |-> "Minor",
       description |-> "Overlapping analgesia", recommendation |-> "None"],
      [medications |-> None, severity |-> "Moderate",
       description |-> "General caution", recommendation |-> "Review"] }

\* response.data of the AI analysis: None is a null body
AiResponses ==
    {None} \cup
    { Some([interactions |-> i, summary |-> s, confidence_score |-> c,
            llm_reasoning |-> Some("Model reasoning"),
            overall_risk_level |-> r]) :
        i \in {None} \cup {Some(l) : l \in SeqUpTo(AiRows, MaxAi)},
        s \in {None, Some("Reviewed by the model.")},
        c \in {None, Some(60)},
        r \in {None, Some("MAJOR")} }

\* aiAnalysis assigned in the catch of Step 2
AiPlaceholder ==
    Some([interactions |-> Some(<<>>),
          summary |-> Some(UnavailableSummary),
          confidence_score |-> Some(PLACEHOLDER_CONFIDENCE),
          llm_reasoning |-> Some(UnavailableReasoning),
          overall_risk_level |-> None])

-----------------------------------------------------------------------------
(* analyzeInteractionsEnhanced: Step 3 and Step 4 *)

\* x || d for an optional list or text
OrElse(o, d) == IF IsSome(o) THEN Get(o) ELSE d

\* x || d for an optional number: 0 is falsy too
NumOrElse(o, d) == IF IsSome(o) /\ Get(o) # 0 THEN Get(o) ELSE d

\* the filter's inner test: some medication of the AI entry is contained in
\* drug_a or drug_b of the database row, case-insensitively
AiMentionsRow(ai, db) ==
    /\ IsSome(ai.medications)
    /\ \E k \in 1..Len(Get(ai.medications)) :
          LET med == ToLower(Get(ai.medications)[k])
          IN  \/ Includes(ToLower(db.drug_a), med)
              \/ Includes(ToLower(db.drug_b), med)

\* KeepAi with the filter left out: every AI entry is kept
KeepAi_NoFilter(ai, dbList) == TRUE

\* the predicate handed to filter: true keeps the AI entry
KeepAi(ai, dbList) ==
    ~ \E i \in 1..Len(dbList) : AiMentionsRow(ai, dbList[i])

DbEntries(dbList) ==
    [i \in 1..Len(dbList) |->
        [severity |-> dbList[i].severity,
         medications |-> Some(<<dbList[i].drug_a, dbList[i].drug_b>>),
         description |-> dbList[i].description,
         recommendation |-> dbList[i].recommendation,
         source |-> "database",
         confidence |-> DB_CONFIDENCE]]

AiEntries(dbList, ai) ==
    LET Keep(e) == KeepAi(e, dbList)
        kept == SelectSeq(OrElse(ai.interactions, <<>>), Keep)
    IN  [i \in 1..Len(kept) |->
            [severity |-> kept[i].severity,
             medications |-> kept[i].medications,
             description |-> kept[i].description,
             recommendation |-> kept[i].recommendation,
             source |-> "ai",
             confidence |-> NumOrElse(ai.confidence_score, AI_DEFAULT_CONFIDENCE)]]

MergedInteractions(dbList, ai) == DbEntries(dbList) \o AiEntries(dbList, ai)

CountWhere(list, Test(_)) == Cardinality({i \in 1..Len(list) : Test(list[i])})

Piece(kind, a, b, text) == [kind |-> kind, a |-> a, b |-> b, text |-> text]

\* the summary text, as the pieces the code concatenates
GenerateEnhancedSummary(interactions, aiSummary) ==
    IF Len(interactions) = 0
    THEN <<Piece("none", 0, 0, NoInteractionsSummary)>>
    ELSE
      LET IsMajor(i) == i.severity = "Major"
          IsModerate(i) == i.severity = "Moderate"
          IsMinor(i) == i.severity = "Minor"
          IsDb(i) == i.source = "database"
          IsAi(i) == i.source = "ai"
          majorCount == CountWhere(interactions, IsMajor)
          moderateCount == CountWhere(interactions, IsModerate)
          minorCount == CountWhere(interactions, IsMinor)
          dbCount == CountWhere(interactions, IsDb)
          aiCount == CountWhere(interactions, IsAi)
      IN  (IF majorCount > 0
             THEN <<Piece("major", majorCount, 0, "MAJOR interaction(s) detected. ")>>
             ELSE <<>>)
          \o (IF moderateCount > 0
             THEN <<Piece("moderate", moderateCount, 0, "moderate interaction(s) found. ")>>
             ELSE <<>>)
          \o (IF minorCount > 0
             THEN <<Piece("minor", minorCount, 0, "minor interaction(s) noted. ")>>
             ELSE <<>>)
          \o <<Piece("based", dbCount, aiCount,
                     "Analysis based on database record(s) and AI prediction(s).")>>
          \o (IF IsSome(aiSummary)
             THEN <<Piece("ai", 0, 0, Get(aiSummary))>>
             ELSE <<>>)

\* const enhancedAnalysis = {...aiAnalysis, interactions, ..., summary}
EnhancedAnalysis(dbList, ai) ==
    LET merged == MergedInteractions(dbList, ai)
    IN  [interactions |-> merged,
         analysis_type |-> "hybrid",
         database_interactions |-> Len(dbList),
         ai_interactions |-> Len(OrElse(ai.interactions, <<>>)),
         total_interactions |-> Len(merged),
         summary |-> GenerateEnhancedSummary(merged, ai.summary),
         confidence_score |-> ai.confidence_score,
         llm_reasoning |-> ai.llm_reasoning,
         overall_risk_level |-> ai.overall_risk_level]

-----------------------------------------------------------------------------
(* analyzeInteractionsEnhanced: the async function, one action per await *)

\* an entry that starts the database check and the AI call together
Call_StartsBoth(p) ==
    /\ pc = "idle"
    /\ payload' = Some(p)
    /\ drugNames' = [i \in 1..Len(p.new_medications) |->
                        SplitFirst(p.new_medications[i])]
    /\ dbRequests' = dbRequests + 1
    /\ aiRequests' = aiRequests + 1
    /\ pc' = "db"
    /\ UNCHANGED <<riskVars, dashVars, otherVars>>
    /\ UNCHANGED <<dbOutcome, dbInteractions, aiOutcome, aiAnalysis, result,
                   via>>

\* entry: drugNames is computed and the database check is awaited
Call(p) ==
    /\ pc = "idle"
    /\ payload' = Some(p)
    /\ drugNames' = [i \in 1..Len(p.new_medications) |->
                        SplitFirst(p.new_medications[i])]
    /\ dbRequests' = dbRequests + 1
    /\ pc' = "db"
    /\ UNCHANGED <<riskVars, dashVars, otherVars>>
    /\ UNCHANGED <<dbOutcome, dbInteractions, aiOutcome, aiAnalysis, result,
                   via, aiRequests>>

\* a Step 2 that does not await analyzeInteractions: the merge is next while
\* the AI call is still in flight
DbResponds_AiNotAwaited(resp) ==
    /\ pc = "db"
    /\ dbOutcome' = "ok"
    /\ dbInteractions' = OrElse(resp, <<>>)
    /\ aiRequests' = aiRequests + 1
    /\ aiAnalysis' = AiPlaceholder
    /\ pc' = "merge"
    /\ UNCHANGED <<riskVars, dashVars, otherVars>>
    /\ UNCHANGED <<payload, drugNames, aiOutcome, result, via, dbRequests>>

\* the database check resolves; Step 2 then awaits analyzeInteractions
DbResponds(resp) ==
    /\ pc = "db"
    /\ dbOutcome' = "ok"
    /\ dbInteractions' = OrElse(resp, <<>>)
    /\ aiRequests' = aiRequests + 1
    /\ pc' = "ai"
    /\ UNCHANGED <<riskVars, dashVars, otherVars>>
    /\ UNCHANGED <<payload, drugNames, aiOutcome, aiAnalysis, result, via,
                   dbRequests>>

\* the database check throws: caught, dbInteractions stays []
DbFails ==
    /\ pc = "db"
    /\ dbOutcome' = "failed"
    /\ dbInteractions' = <<>>
    /\ aiRequests' = aiRequests + 1
    /\ pc' = "ai"
    /\ UNCHANGED <<riskVars, dashVars, otherVars>>
    /\ UNCHANGED <<payload, drugNames, aiOutcome, aiAnalysis, result, via,
                   dbRequests>>

\* analyzeInteractions resolves
AiResponds(data) ==
    /\ pc = "ai"
    /\ aiOutcome' = "ok"
    /\ aiAnalysis' = data
    /\ pc' = "merge"
    /\ UNCHANGED <<riskVars, dashVars, otherVars>>
    /\ UNCHANGED <<payload, drugNames, dbOutcome, dbInteractions, result, via,
                   dbRequests, aiRequests>>

\* AiFails without the inner try/catch of Step 2: the error reaches the
\* outer catch, which calls analyzeInteractions again
AiFails_NoInnerCatch ==
    /\ pc = "ai"
    /\ aiOutcome' = "failed"
    /\ aiRequests' = aiRequests + 1
    /\ pc' = "fallback"
    /\ UNCHANGED <<riskVars, dashVars, otherVars>>
    /\ UNCHANGED <<payload, drugNames, dbOutcome, dbInteractions, aiAnalysis,
                   result, via, dbRequests>>

\* analyzeInteractions throws (timeout, network error, error response)
AiFails ==
    /\ pc = "ai"
    /\ aiOutcome' = "failed"
    /\ aiAnalysis' = AiPlaceholder
    /\ pc' = "merge"
    /\ UNCHANGED <<riskVars, dashVars, otherVars>>
    /\ UNCHANGED <<payload, drugNames, dbOutcome, dbInteractions, result, via,
                   dbRequests, aiRequests>>

\* Steps 3 and 4 and the return
Merge ==
    /\ pc = "merge"
    /\ IsSome(aiAnalysis)
    /\ result' = Some([success |-> TRUE,
                       data |-> Some(EnhancedAnalysis(dbInteractions, Get(aiAnalysis)))])
    /\ via' = "merged"
    /\ pc' = "done"
    /\ UNCHANGED <<riskVars, dashVars, otherVars>>
    /\ UNCHANGED <<payload, drugNames, dbOutcome, dbInteractions, aiOutcome,
                   aiAnalysis, dbRequests, aiRequests>>

\* aiAnalysis is null: aiAnalysis.interactions throws a TypeError, the outer
\* catch awaits analyzeInteractions(payload) again
MergeThrows ==
    /\ pc = "merge"
    /\ ~IsSome(aiAnalysis)
    /\ aiRequests' = aiRequests + 1
    /\ pc' = "fallback"
    /\ UNCHANGED <<riskVars, dashVars, otherVars>>
    /\ UNCHANGED <<payload, drugNames, dbOutcome, dbInteractions, aiOutcome,
                   aiAnalysis, result, via, dbRequests>>

\* the fallback call resolves: its result is returned as it is
FallbackResponds(data) ==
    /\ pc = "fallback"
    /\ result' = Some([success |-> TRUE, data |-> data])
    /\ via' = "fallback"
    /\ pc' = "done"
    /\ UNCHANGED <<riskVars, dashVars, otherVars>>
    /\ UNCHANGED <<payload, drugNames, dbOutcome, dbInteractions, aiOutcome,
                   aiAnalysis, dbRequests, aiRequests>>

\* the fallback call throws: the exception reaches the caller
FallbackFails ==
    /\ pc = "fallback"
    /\ via' = "fallback"
    /\ pc' = "thrown"
    /\ UNCHANGED <<riskVars, dashVars, otherVars>>
    /\ UNCHANGED <<payload, drugNames, dbOutcome, dbInteractions, aiOutcome,
                   aiAnalysis, result, dbRequests, aiRequests>>

EnhInit ==
    /\ pc = "idle"
    /\ payload = None
    /\ drugNames = <<>>
    /\ dbOutcome = "pending"
    /\ dbInteractions = <<>>
    /\ aiOutcome = "pending"
    /\ aiAnalysis = None
    /\ result = None
    /\ via = "none"
    /\ dbRequests = 0
    /\ aiRequests = 0

RiskIdle ==
    /\ analysis = None
    /\ riskLevel = None
    /\ riskIcon = None
    /\ propPatient = None
    /\ propMedications = <<>>
    /\ loading = FALSE
    /\ resultsError = None
    /\ resultsCalls = 0

DashIdle ==
    /\ selectedPatient = None
    /\ selectedDiagnosis = None
    /\ medications = <<>>
    /\ interactionResults = None
    /\ isAnalyzing = FALSE
    /\ error = None
    /\ pending = {}
    /\ sent = 0
    /\ analyzeCalls = 0

KbIdle ==
    /\ kbPc = "idle"
    /\ kbDrugNames = <<>>
    /\ kbIcdCodes = <<>>
    /\ kbData = None
    /\ kbRequests = 0

InputIdle ==
    /\ inputMedications = <<>>
    /\ inputErrors = {}
    /\ inputClock = 0
    /\ inputOps = 0

CacheIdle ==
    /\ cacheStore = {}
    /\ now = 0
    /\ llmCalls = 0
    /\ answers = {}

LoadIdle ==
    /\ loads = {}
    /\ loadsSent = 0
    /\ loadErrors = 0

SearchIdle ==
    /\ searchTerm = <<>>
    /\ searchResults = <<>>
    /\ isSearching = FALSE
    /\ isDropdownOpen = FALSE
    /\ searchError = None
    /\ timers = {}
    /\ timerRef = None
    /\ termEdits = 0
    /\ icdPending = {}
    /\ icdSent = 0

\* PatientList once mounted: loading starts true and the mount effect has
\* called fetchPatients() (page 1, no search)
ListMounted ==
    /\ listSearchTerm = <<>>
    /\ listTimers = {}
    /\ listNow = 0
    /\ lastKeyAt = None
    /\ keystrokes = 0
    /\ closelySpaced = TRUE
    /\ listFetched = <<>>
    /\ listPending = {[id |-> 0, q |-> <<>>]}
    /\ listLoading = TRUE
    /\ listPatients = <<>>
    /\ listError = ""

SaveIdle ==
    /\ showModal = FALSE
    /\ notes = ""
    /\ saving = FALSE
    /\ saveError = ""
    /\ savePending = {}
    /\ savesSent = 0

RegIdle ==
    /\ activeTab = "dashboard"
    /\ showRegistrationForm = FALSE
    /\ regLoading = FALSE
    /\ regError = ""
    /\ regSuccess = FALSE
    /\ regPending = {}
    /\ regTimers = {}
    /\ regSent = 0
    /\ registered = 0

UiIdle == LoadIdle /\ SearchIdle /\ ListMounted /\ SaveIdle /\ RegIdle

Init ==
    /\ EnhInit /\ RiskIdle /\ DashIdle /\ KbIdle /\ InputIdle /\ CacheIdle
    /\ UiIdle

Next ==
    \/ \E p \in Payloads : Call(p)
    \/ \E r \in DbResponses : DbResponds(r)
    \/ DbFails
    \/ \E d \in AiResponses : AiResponds(d)
    \/ AiFails
    \/ Merge
    \/ MergeThrows
    \/ \E d \in AiResponses : FallbackResponds(d)
    \/ FallbackFails

Spec == Init /\ [][Next]_vars


-----------------------------------------------------------------------------
(* Claims about analyzeInteractionsEnhanced *)

Returned == pc = "done"
ReturnedMerged == pc = "done" /\ via = "merged"
ResultData == Get(Get(result).data)
ResultInteractions == ResultData.interactions

\* the drugs an entry names, case-folded, as a set
DrugSet(optMeds) ==
    IF IsSome(optMeds)
    THEN {ToLower(Get(optMeds)[k]) : k \in 1..Len(Get(optMeds))}
    ELSE {}

RowDrugSet(row) == {ToLower(row.drug_a), ToLower(row.drug_b)}

AiList == OrElse(Get(aiAnalysis).interactions, <<>>)

SeverityRank(s) ==
    CASE s = "Major" -> 2 [] s = "Moderate" -> 1 [] s = "Minor" -> 0 [] OTHER -> 0 - 1

\* C1: once the AI call has failed, the call neither throws nor falls back to
\* a second AI call, and when it returns it returns success with one merged
\* entry for every interaction the database check found.
C1_AiFailureKeepsDatabaseResults ==
    aiOutcome = "failed" =>
        /\ pc \notin {"thrown", "fallback"}
        /\ Returned =>
              /\ IsSome(result)
              /\ Get(result).success
              /\ \A i \in 1..Len(dbInteractions) :
                    \E j \in 1..Len(ResultInteractions) :
                        LET e == ResultInteractions[j]
                            r == dbInteractions[i]
                        IN  /\ e.medications = Some(<<r.drug_a, r.drug_b>>)
                            /\ e.severity = r.severity
                            /\ e.description = r.description
                            /\ e.recommendation = r.recommendation

\* C1 witness: a call returned after the AI call failed and the database
\* check had found interactions
C1_Witness ==
    /\ Returned
    /\ aiOutcome = "failed"
    /\ dbOutcome = "ok"
    /\ Len(dbInteractions) >= 2

\* C2: whenever the AI call failed, the returned summary contains the text
\* saying the AI analysis was unavailable, also when the database check found
\* nothing.
C2_FailureSummaryStatesUnavailable ==
    (Returned /\ aiOutcome = "failed") =>
        \E k \in 1..Len(ResultData.summary) :
            ResultData.summary[k].text = UnavailableSummary

\* C3: the merged list is sorted by severity descending, whichever source
\* each entry came from.
C3_SortedBySeverityDescending ==
    ReturnedMerged =>
        \A i, j \in 1..Len(ResultInteractions) :
            i < j => SeverityRank(ResultInteractions[i].severity)
                        >= SeverityRank(ResultInteractions[j].severity)

\* C4: an AI entry is dropped exactly when its drug set equals that of some
\* database row; the AI part of the merged list is the AI entries whose drug
\* set equals no row's.
C4_DroppedExactlyWhenSameDrugSet ==
    (ReturnedMerged /\ aiOutcome = "ok") =>
        LET Differs(ai) == \A i \in 1..Len(dbInteractions) :
                              DrugSet(ai.medications) # RowDrugSet(dbInteractions[i])
            expected == SelectSeq(AiList, Differs)
            aiPart == SubSeq(ResultInteractions, Len(dbInteractions) + 1,
                             Len(ResultInteractions))
        IN  /\ Len(aiPart) = Len(expected)
            /\ \A k \in 1..Len(expected) :
                  /\ aiPart[k].medications = expected[k].medications
                  /\ aiPart[k].description = expected[k].description

\* C5: when a database row and an AI entry name the same pair, the merged
\* list has an entry for that pair, and every merged entry for it is
\* database-sourced with confidence min(1.0, c + 0.05), c the database
\* entry's confidence (0.95).
C5_CorroborationBoost ==
    (ReturnedMerged /\ aiOutcome = "ok") =>
        \A i \in 1..Len(dbInteractions) :
            (\E k \in 1..Len(AiList) :
                DrugSet(AiList[k].medications) = RowDrugSet(dbInteractions[i]))
            =>
            LET same == {j \in 1..Len(ResultInteractions) :
                            DrugSet(ResultInteractions[j].medications)
                                = RowDrugSet(dbInteractions[i])}
                boosted == IF DB_CONFIDENCE + 5 > 100 THEN 100 ELSE DB_CONFIDENCE + 5
            IN  /\ same # {}
                /\ \A j \in same :
                      /\ ResultInteractions[j].source = "database"
                      /\ ResultInteractions[j].confidence = boosted

\* C6: when the AI call succeeded, the merged list begins with the merged
\* list of the AI-failure case for the same database result (one
\* database-sourced entry per row, in order), and every further entry is
\* AI-sourced and names a drug set no database row names.
C6_SuccessOnlyAddsNewAiEntries ==
    (ReturnedMerged /\ aiOutcome = "ok") =>
        /\ Len(ResultInteractions) >= Len(dbInteractions)
        /\ \A i \in 1..Len(dbInteractions) :
              /\ ResultInteractions[i].source = "database"
              /\ ResultInteractions[i].medications
                    = Some(<<dbInteractions[i].drug_a, dbInteractions[i].drug_b>>)
              /\ ResultInteractions[i].severity = dbInteractions[i].severity
        /\ \A j \in (Len(dbInteractions) + 1)..Len(ResultInteractions) :
              /\ ResultInteractions[j].source = "ai"
              /\ \A i \in 1..Len(dbInteractions) :
                    DrugSet(ResultInteractions[j].medications)
                        # RowDrugSet(dbInteractions[i])

\* C6 witness: the AI call succeeded, the database check found rows, and the
\* merge added an AI entry while dropping another
C6_Witness ==
    /\ ReturnedMerged
    /\ aiOutcome = "ok"
    /\ Len(dbInteractions) >= 1
    /\ Len(ResultInteractions) > Len(dbInteractions)
    /\ Len(ResultInteractions) < Len(dbInteractions) + Len(AiList)

\* C8: the confidence score of a merged result is the arithmetic mean of its
\* entries' confidences, and 1.0 when the merged list is empty.
C8_ConfidenceIsMean ==
    ReturnedMerged =>
        LET n == Len(ResultInteractions)
            total == SumSeq([j \in 1..n |-> ResultInteractions[j].confidence])
            score == ResultData.confidence_score
        IN  /\ IsSome(score)
            /\ IF n = 0 THEN Get(score) = 100 ELSE Get(score) * n = total

\* the request of the demo scenario: the patient's Warfarin 5mg and the newly
\* prescribed Ibuprofen 400mg, no conditions
ScenarioMedications == <<MedString(Warfarin, Mg5), MedString(Ibuprofen, Mg400)>>

WarfarinIbuprofenRow(row) ==
    RowDrugSet(row) = {ToLower(Warfarin), ToLower(Ibuprofen)}

\* C14: for the scenario request, once the database check has answered with
\* its Major Warfarin/Ibuprofen row (and the AI analysis, if it answered,
\* rated the request MAJOR), the returned analysis has overall risk level
\* Major and holds a database-sourced entry for Warfarin and Ibuprofen.
C14_ScenarioIsMajorFromKnowledgeBase ==
    (/\ ReturnedMerged
     /\ Get(payload).new_medications = ScenarioMedications
     /\ aiOutcome = "ok" => Get(aiAnalysis).overall_risk_level = Some("MAJOR")
     /\ \E i \in 1..Len(dbInteractions) :
            WarfarinIbuprofenRow(dbInteractions[i])
                /\ dbInteractions[i].severity = "Major")
    =>
        /\ IsSome(ResultData.overall_risk_level)
        /\ Get(ResultData.overall_risk_level) \in {"Major", "MAJOR", "major"}
        /\ \E j \in 1..Len(ResultInteractions) :
              /\ ResultInteractions[j].source = "database"
              /\ DrugSet(ResultInteractions[j].medications)
                    = {ToLower(Warfarin), ToLower(Ibuprofen)}

C16_MergeWaitsForBothOutcomes ==
    (pc = "merge" \/ ReturnedMerged) =>
        /\ dbOutcome \in {"ok", "failed"}
        /\ aiOutcome \in {"ok", "failed"}

\* C16 witness: the merge is about to run after the AI call failed
C16_Witness ==
    /\ pc = "merge"
    /\ aiOutcome = "failed"
    /\ dbOutcome = "ok"

\* C19: one call of analyzeInteractionsEnhanced issues at most one request to
\* the AI analysis endpoint.
C19_AtMostOneAiRequest ==
    aiRequests <= 1

-----------------------------------------------------------------------------
(* InteractionResults: the overall risk of the analysis it holds *)

MaxWarnings == 2    \* longest warnings list of an analysis

\* severities as the data model writes them, and as the component tests them
WarningSeverities ==
    {"Major", "Moderate", "Minor", "MAJOR", "MODERATE", "MINOR"}

\* severity?.toLowerCase()
LowerSeverity(s) ==
    CASE s \in {"Major", "MAJOR", "major"} -> "major"
      [] s \in {"Moderate", "MODERATE", "moderate"} -> "moderate"
      [] s \in {"Minor", "MINOR", "minor"} -> "minor"
      [] OTHER -> s

\* analyses the component may be given: warnings may be absent
Analyses ==
    {[warnings |-> None]} \cup
    {[warnings |-> Some([i \in 1..Len(l) |-> [severity |-> l[i]]])] :
        l \in SeqUpTo(WarningSeverities, MaxWarnings)}

GetOverallRiskLevel(an) ==
    IF ~IsSome(an) \/ ~IsSome(Get(an).warnings) THEN "safe"
    ELSE LET warnings == Get(Get(an).warnings)
             Has(sev) == \E i \in 1..Len(warnings) : warnings[i].severity = sev
         IN  IF Has("MAJOR") THEN "major"
             ELSE IF Has("MODERATE") THEN "moderate"
             ELSE IF Has("MINOR") THEN "minor"
             ELSE "safe"

\* the icon getSeverityIcon chooses
GetSeverityIcon(severity) ==
    CASE LowerSeverity(severity) = "major" -> "AlertTriangle"
      [] LowerSeverity(severity) = "moderate" -> "AlertCircle"
      [] LowerSeverity(severity) = "minor" -> "Info"
      [] OTHER -> "CheckCircle"

-----------------------------------------------------------------------------
(* Dashboard and InteractionResults: inputs *)

MaxMedications == 1   \* longest medication list entered
MaxAnalyses == 2      \* handleAnalyze invocations followed

EmptyMedicationsError == "Please add at least one medication"
AnalysisFailedError == "Failed to analyze interactions: Network Error"
AnalysisTimeoutError ==
    "Failed to analyze interactions: timeout of 15000ms exceeded"

Patients ==
    { [patient_code |-> Some("PC-001"), no_rm |-> Some("RM-001"), name |-> "Budi"],
      [patient_code |-> None, no_rm |-> Some("RM-002"), name |-> "Siti"] }

MedicationEntries ==
    { [name |-> Warfarin, dosage |-> Mg5],
      [name |-> Ibuprofen, dosage |-> Mg400] }

MedicationLists == SeqUpTo(MedicationEntries, MaxMedications)

\* the payload handleAnalyze builds from the state it closes over
BuildPayload(patient, diagnosis, meds) ==
    [patient_id |->
        IF IsSome(patient) /\ IsSome(Get(patient).patient_code)
        THEN Get(Get(patient).patient_code)
        ELSE IF IsSome(patient) /\ IsSome(Get(patient).no_rm)
        THEN Get(Get(patient).no_rm)
        ELSE "unknown",
     new_medications |->
        [i \in 1..Len(meds) |-> MedString(meds[i].name, meds[i].dosage)],
     diagnoses |-> IF IsSome(diagnosis) THEN <<Get(diagnosis).code>> ELSE <<>>,
     notes |->
        [patient |-> IF IsSome(patient) THEN Get(patient).name ELSE "Unknown Patient",
         diagnosis |-> IF IsSome(diagnosis) THEN Get(diagnosis).name_id
                       ELSE "No diagnosis"]]

\* what the backend answers for a payload: the analysis of its medications
AnalysisOf(p) == [analysed |-> p.new_medications]

-----------------------------------------------------------------------------
(* InteractionResults: the component's effect and its own handleAnalyze *)

ResultsValidationError ==
    "Please select a patient and add at least one medication"
ResultsReferenceError == "selectedPatient is not defined"

\* the props the component is rendered with: patient and medications
ResultsProps ==
    { <<patient, meds>> :
        patient \in {None} \cup {Some(x) : x \in Patients},
        meds \in {<<>>, <<[name |-> Warfarin, dosage |-> Mg5]>>} }

\* the effect on [externalAnalysis]: setAnalysis(externalAnalysis), and the
\* render that follows computes the overall risk and its icon
UseExternalAnalysis(a) ==
    /\ analysis' = Some(a)
    /\ riskLevel' = Some(GetOverallRiskLevel(Some(a)))
    /\ riskIcon' = Some(GetSeverityIcon(GetOverallRiskLevel(Some(a))))
    /\ UNCHANGED <<propPatient, propMedications, loading, resultsError,
                   resultsCalls>>
    /\ UNCHANGED <<enhVars, dashVars, otherVars>>

\* the component's handleAnalyze. Past the validation, building the payload
\* reads selectedPatient, which the component does not define: the
\* ReferenceError is thrown inside the try before any request, the catch
\* sets the error and clears the analysis, finally clears loading.
ResultsHandleAnalyze ==
    /\ resultsCalls < MaxAnalyses
    /\ resultsCalls' = resultsCalls + 1
    /\ IF ~IsSome(propPatient) \/ Len(propMedications) = 0
       THEN /\ resultsError' = Some(ResultsValidationError)
            /\ UNCHANGED <<analysis, riskLevel, riskIcon, loading>>
       ELSE /\ resultsError' = Some(ResultsReferenceError)
            /\ analysis' = None
            /\ riskLevel' = None
            /\ riskIcon' = None
            /\ loading' = FALSE
    /\ UNCHANGED <<propPatient, propMedications>>
    /\ UNCHANGED <<enhVars, dashVars, otherVars>>

RiskNext ==
    \/ \E a \in Analyses : UseExternalAnalysis(a)
    \/ ResultsHandleAnalyze

\* the component is mounted with some props and no analysis yet
RiskInit ==
    /\ EnhInit
    /\ DashIdle
    /\ KbIdle
    /\ InputIdle
    /\ CacheIdle
    /\ UiIdle
    /\ analysis = None
    /\ riskLevel = None
    /\ riskIcon = None
    /\ \E props \in ResultsProps :
          /\ propPatient = props[1]
          /\ propMedications = props[2]
    /\ loading = FALSE
    /\ resultsError = None
    /\ resultsCalls = 0

SpecRisk == RiskInit /\ [][RiskNext]_vars

\* The component's own handleAnalyze, for C9: invoked with an empty
\* medication list it sets its validation error and leaves loading as it was.
ResultsEmptyMedicationsRejected ==
    [][(resultsCalls' # resultsCalls /\ Len(propMedications) = 0) =>
            /\ resultsError' = Some(ResultsValidationError)
            /\ loading' = loading]_vars

\* C7: the overall risk level is the highest severity among the warnings
\* (Major > Moderate > Minor) when every warning's severity is one of Minor,
\* Moderate, Major, and it is safe exactly when the warning list is empty.
C7_RiskIsHighestSeverity ==
    (IsSome(riskLevel) /\ IsSome(analysis) /\ IsSome(Get(analysis).warnings)) =>
        LET warnings == Get(Get(analysis).warnings)
            ranks == {SeverityRank(warnings[i].severity) : i \in 1..Len(warnings)}
            top == CHOOSE r \in ranks : \A q \in ranks : q <= r
        IN  (\A i \in 1..Len(warnings) :
                warnings[i].severity \in {"Minor", "Moderate", "Major"})
            =>
            /\ (Get(riskLevel) = "safe") <=> (warnings = <<>>)
            /\ warnings # <<>> =>
                  Get(riskLevel) = (CASE top = 2 -> "major"
                                      [] top = 1 -> "moderate"
                                      [] OTHER -> "minor")


-----------------------------------------------------------------------------
(* Dashboard: the handlers *)

HandlePatientSelect(patient) ==
    /\ selectedPatient' = Some(patient)
    /\ UNCHANGED <<selectedDiagnosis, medications, interactionResults,
                   isAnalyzing, error, pending, sent, analyzeCalls>>
    /\ UNCHANGED <<enhVars, riskVars, otherVars>>

HandleMedicationChange(newMedications) ==
    /\ medications' = newMedications
    /\ interactionResults' = None
    /\ error' = None
    /\ UNCHANGED <<selectedPatient, selectedDiagnosis, isAnalyzing, pending,
                   sent, analyzeCalls>>
    /\ UNCHANGED <<enhVars, riskVars, otherVars>>

\* handleAnalyze with setIsAnalyzing(true) moved above the validation
HandleAnalyze_FlagBeforeValidation ==
    /\ analyzeCalls < MaxAnalyses
    /\ analyzeCalls' = analyzeCalls + 1
    /\ isAnalyzing' = TRUE
    /\ IF Len(medications) = 0
       THEN /\ error' = Some(EmptyMedicationsError)
            /\ UNCHANGED <<pending, sent>>
       ELSE LET p == BuildPayload(selectedPatient, selectedDiagnosis, medications)
            IN  /\ error' = None
                /\ sent' = sent + 1
                /\ pending' = pending \cup {[id |-> sent + 1, payload |-> p]}
    /\ UNCHANGED <<selectedPatient, selectedDiagnosis, medications,
                   interactionResults>>
    /\ UNCHANGED <<enhVars, riskVars, otherVars>>

\* handleAnalyze up to its await: the validation, then the flags, the
\* payload and the POST that apiService.analyzeInteractions issues
HandleAnalyze ==
    /\ analyzeCalls < MaxAnalyses
    /\ analyzeCalls' = analyzeCalls + 1
    /\ IF Len(medications) = 0
       THEN /\ error' = Some(EmptyMedicationsError)
            /\ UNCHANGED <<isAnalyzing, pending, sent>>
       ELSE LET p == BuildPayload(selectedPatient, selectedDiagnosis, medications)
            IN  /\ isAnalyzing' = TRUE
                /\ error' = None
                /\ sent' = sent + 1
                /\ pending' = pending \cup {[id |-> sent + 1, payload |-> p]}
    /\ UNCHANGED <<selectedPatient, selectedDiagnosis, medications,
                   interactionResults>>
    /\ UNCHANGED <<enhVars, riskVars, otherVars>>

\* a success branch that keeps the analysis but not its from_cache mark
AnalyzeResolvesWith_CacheMarkLost(r, data) ==
    /\ r \in pending
    /\ pending' = pending \ {r}
    /\ interactionResults' =
          Some(IF "from_cache" \in DOMAIN data
               THEN [data EXCEPT !.from_cache = FALSE] ELSE data)
    /\ isAnalyzing' = FALSE
    /\ UNCHANGED <<selectedPatient, selectedDiagnosis, medications, error,
                   sent, analyzeCalls>>
    /\ UNCHANGED <<enhVars, riskVars, otherVars>>

\* the POST resolves with body data: setInteractionResults(result.data),
\* then finally
AnalyzeResolvesWith(r, data) ==
    /\ r \in pending
    /\ pending' = pending \ {r}
    /\ interactionResults' = Some(data)
    /\ isAnalyzing' = FALSE
    /\ UNCHANGED <<selectedPatient, selectedDiagnosis, medications, error,
                   sent, analyzeCalls>>
    /\ UNCHANGED <<enhVars, riskVars, otherVars>>

AnalyzeResolves(r) == AnalyzeResolvesWith(r, AnalysisOf(r.payload))

\* the POST fails or times out: the catch, then finally
AnalyzeRejects(r) ==
    /\ r \in pending
    /\ pending' = pending \ {r}
    /\ error' = Some(AnalysisFailedError)
    /\ interactionResults' = None
    /\ isAnalyzing' = FALSE
    /\ UNCHANGED <<selectedPatient, selectedDiagnosis, medications, sent,
                   analyzeCalls>>
    /\ UNCHANGED <<enhVars, riskVars, otherVars>>

\* a timeout whose catch is not followed by a finally: the flag stays set
AnalyzeTimesOut_FlagKept(r) ==
    /\ r \in pending
    /\ pending' = pending \ {r}
    /\ error' = Some(AnalysisTimeoutError)
    /\ interactionResults' = None
    /\ UNCHANGED <<selectedPatient, selectedDiagnosis, medications, sent,
                   analyzeCalls, isAnalyzing>>
    /\ UNCHANGED <<enhVars, riskVars, otherVars>>

\* no answer within the axios timeout (15 s): the request is aborted, the
\* POST rejects, then the catch and finally
AnalyzeTimesOut(r) ==
    /\ r \in pending
    /\ pending' = pending \ {r}
    /\ error' = Some(AnalysisTimeoutError)
    /\ interactionResults' = None
    /\ isAnalyzing' = FALSE
    /\ UNCHANGED <<selectedPatient, selectedDiagnosis, medications, sent,
                   analyzeCalls>>
    /\ UNCHANGED <<enhVars, riskVars, otherVars>>

DashNext ==
    \/ \E patient \in Patients : HandlePatientSelect(patient)
    \/ \E m \in MedicationLists : HandleMedicationChange(m)
    \/ HandleAnalyze
    \/ \E r \in pending : AnalyzeResolves(r)
    \/ \E r \in pending : AnalyzeRejects(r)
    \/ \E r \in pending : AnalyzeTimesOut(r)

\* no diagnosis is selected in these behaviours: selectedDiagnosis stays null
SpecDashboard == Init /\ [][DashNext]_vars

\* the Dashboard with its patient already chosen (or none chosen)
InitWithPatient ==
    /\ EnhInit /\ RiskIdle /\ KbIdle /\ InputIdle /\ CacheIdle /\ UiIdle
    /\ selectedPatient \in {None} \cup {Some(x) : x \in Patients}
    /\ selectedDiagnosis = None
    /\ medications = <<>>
    /\ interactionResults = None
    /\ isAnalyzing = FALSE
    /\ error = None
    /\ pending = {}
    /\ sent = 0
    /\ analyzeCalls = 0

\* the handlers that take part in an analysis
AnalysisNext ==
    \/ \E m \in MedicationLists : HandleMedicationChange(m)
    \/ HandleAnalyze
    \/ \E r \in pending : AnalyzeResolves(r)
    \/ \E r \in pending : AnalyzeRejects(r)
    \/ \E r \in pending : AnalyzeTimesOut(r)

\* the axios timer runs for every request in flight: a request that stays
\* unanswered is eventually aborted
SpecDashboardLive ==
    /\ InitWithPatient
    /\ [][AnalysisNext]_vars
    /\ WF_vars(\E r \in pending : AnalyzeTimesOut(r))

\* C9: a handleAnalyze invoked with an empty medication list sets the
\* validation error, issues no request and leaves the in-progress flag as it
\* was (it does not mark the analysis as in progress).
C9_EmptyMedicationsRejected ==
    [][(analyzeCalls' # analyzeCalls /\ Len(medications) = 0) =>
            /\ error' = Some(EmptyMedicationsError)
            /\ sent' = sent
            /\ pending' = pending
            /\ isAnalyzing' = isAnalyzing]_vars

\* C9 witness: handleAnalyze ran on an empty list and was rejected: the
\* validation error is shown, nothing was sent, nothing is in progress
C9_Witness ==
    /\ analyzeCalls > 0
    /\ Len(medications) = 0
    /\ error = Some(EmptyMedicationsError)
    /\ sent = 0
    /\ ~isAnalyzing

\* C10: a handleAnalyze invoked with no patient selected is rejected with a
\* validation error and posts no analysis request.
C10_MissingPatientRejected ==
    [][(analyzeCalls' # analyzeCalls /\ ~IsSome(selectedPatient)) =>
            /\ IsSome(error')
            /\ sent' = sent]_vars

\* C21: whenever the Dashboard holds an analysis result, that result is the
\* analysis of the medication list the Dashboard holds now: no result of an
\* earlier list stays or arrives after the list has changed.
C21_ResultMatchesHeldMedications ==
    IsSome(interactionResults) =>
        Get(interactionResults) =
            AnalysisOf(BuildPayload(selectedPatient, selectedDiagnosis,
                                    medications))


-----------------------------------------------------------------------------
(* drugService: the interaction check, the condition check and their        *)
(* pattern-matching fallbacks                                                *)

MaxDrugNames == 3   \* longest drugNames argument
MaxIcd == 1         \* longest icdCodes argument

Naproxen  == <<"N","a","p","r","o","x","e","n">>
Metformin == <<"M","e","t","f","o","r","m","i","n">>

\* the lower-case names the patterns and categories are written with
contrast    == <<"c","o","n","t","r","a","s","t">>
digoxin     == <<"d","i","g","o","x","i","n">>
furosemide  == <<"f","u","r","o","s","e","m","i","d","e">>
simvastatin == <<"s","i","m","v","a","s","t","a","t","i","n">>
amlodipine  == <<"a","m","l","o","d","i","p","i","n","e">>
diclofenac  == <<"d","i","c","l","o","f","e","n","a","c">>
celecoxib   == <<"c","e","l","e","c","o","x","i","b">>
heparin     == <<"h","e","p","a","r","i","n">>
rivaroxaban == <<"r","i","v","a","r","o","x","a","b","a","n">>
apixaban    == <<"a","p","i","x","a","b","a","n">>
nsaid       == <<"n","s","a","i","d">>

\* ICD-10 codes: of the contraindication table, and of a request
N18  == <<"N","1","8">>
N19  == <<"N","1","9">>
I50  == <<"I","5","0">>
K922 == <<"K","9","2",".","2">>
J45  == <<"J","4","5">>
N183 == <<"N","1","8",".","3">>

\* String.prototype.startsWith
StartsWith(s, prefix) ==
    Len(prefix) <= Len(s) /\ SubSeq(s, 1, Len(prefix)) = prefix

\* const interactionPatterns, in the order of the array
InteractionPatterns ==
    << [drugs |-> <<ToLower(Warfarin), ToLower(Ibuprofen)>>, severity |-> "Major",
        description |-> "Increased bleeding risk with concurrent use",
        recommendation |->
            "Avoid concurrent use. Consider paracetamol as alternative."],
       [drugs |-> <<ToLower(Warfarin), ToLower(Aspirin)>>, severity |-> "Major",
        description |-> "Significantly increased bleeding risk",
        recommendation |-> "Avoid concurrent use unless closely monitored."],
       [drugs |-> <<ToLower(Clopidogrel), ToLower(Omeprazole)>>,
        severity |-> "Moderate",
        description |-> "Omeprazole may reduce effectiveness of Clopidogrel",
        recommendation |-> "Consider alternative PPI or H2 blocker."],
       [drugs |-> <<ToLower(Metformin), contrast>>, severity |-> "Major",
        description |-> "Risk of lactic acidosis with iodinated contrast",
        recommendation |-> "Discontinue metformin before contrast procedures."],
       [drugs |-> <<digoxin, furosemide>>, severity |-> "Moderate",
        description |-> "Increased digoxin levels due to electrolyte changes",
        recommendation |-> "Monitor digoxin levels and electrolytes closely."],
       [drugs |-> <<simvastatin, amlodipine>>, severity |-> "Moderate",
        description |-> "Increased statin levels, risk of myopathy",
        recommendation |-> "Limit simvastatin dose to 20mg daily."] >>

Nsaids == {ToLower(Ibuprofen), diclofenac, ToLower(Naproxen), celecoxib}
Anticoagulants == {ToLower(Warfarin), heparin, rivaroxaban, apixaban}

\* drugNames.map((d) => d.toLowerCase())
DrugNamesLower(names) == [i \in 1..Len(names) |-> ToLower(names[i])]

\* pattern.drugs.every(drug => drugNamesLower.some(d => d.includes(drug)))
HasAllDrugs(pattern, names) ==
    \A k \in 1..Len(pattern.drugs) :
        \E i \in 1..Len(names) :
            Includes(DrugNamesLower(names)[i], pattern.drugs[k])

\* drugNames.find(d => d.toLowerCase().includes(patternDrug)) || patternDrug
MatchedDrug(patternDrug, names) ==
    LET hits == {i \in 1..Len(names) : Includes(ToLower(names[i]), patternDrug)}
    IN  IF hits = {} THEN patternDrug ELSE names[Min(hits)]

\* the entries pushed by the loop over interactionPatterns
PatternInteractions(names) ==
    LET matching == SelectSeq(InteractionPatterns,
                              LAMBDA p : HasAllDrugs(p, names))
    IN  [k \in 1..Len(matching) |->
            [drug_a |-> MatchedDrug(matching[k].drugs[1], names),
             drug_b |-> MatchedDrug(matching[k].drugs[2], names),
             severity |-> matching[k].severity,
             description |-> matching[k].description,
             recommendation |-> matching[k].recommendation,
             source |-> "pattern_matching"]]

HasNSAID(names) ==
    \E i \in 1..Len(names) :
        \E n \in Nsaids : Includes(DrugNamesLower(names)[i], n)

HasAnticoagulant(names) ==
    \E i \in 1..Len(names) :
        \E a \in Anticoagulants : Includes(DrugNamesLower(names)[i], a)

CategoryInteraction ==
    [drug_a |-> <<"N","S","A","I","D">>,
     drug_b |-> <<"A","n","t","i","c","o","a","g","u","l","a","n","t">>,
     severity |-> "Major",
     description |-> "Increased bleeding risk with concurrent use",
     recommendation |->
        "Avoid concurrent use. Consider paracetamol as alternative.",
     source |-> "category_matching"]

\* a category rule that ignores what the patterns found
CategoryRuleFires_IgnoringPatterns(names, interactions) ==
    HasNSAID(names) /\ HasAnticoagulant(names)

\* hasNSAID && hasAnticoagulant && !interactions.length
CategoryRuleFires(names, interactions) ==
    HasNSAID(names) /\ HasAnticoagulant(names) /\ Len(interactions) = 0

GenerateMockInteractions(names) ==
    LET interactions == PatternInteractions(names)
    IN  IF CategoryRuleFires(names, interactions)
        THEN Append(interactions, CategoryInteraction)
        ELSE interactions


\* const contraindications, in the order of the array
Contraindications ==
    << [drugs |-> <<ToLower(Metformin)>>, conditions |-> <<N18, N19>>,
        severity |-> "Major",
        warning |-> "Metformin contraindicated in severe kidney disease due to lactic acidosis risk"],
       [drugs |-> <<nsaid, ToLower(Ibuprofen), diclofenac>>,
        conditions |-> <<N18, I50>>, severity |-> "Major",
        warning |-> "NSAIDs may worsen kidney function and heart failure"],
       [drugs |-> <<ToLower(Warfarin)>>, conditions |-> <<K922>>,
        severity |-> "Major",
        warning |-> "Anticoagulants contraindicated in active GI bleeding"],
       [drugs |-> <<ToLower(Aspirin)>>, conditions |-> <<J45>>,
        severity |-> "Moderate",
        warning |-> "Aspirin may trigger bronchospasm in aspirin-sensitive asthma"] >>

\* hasDrug && hasCondition
ContraindicationApplies(contra, names, icdCodes) ==
    /\ \E k \in 1..Len(contra.drugs) :
          \E i \in 1..Len(names) :
              Includes(DrugNamesLower(names)[i], contra.drugs[k])
    /\ \E k \in 1..Len(contra.conditions) :
          \E i \in 1..Len(icdCodes) :
              StartsWith(icdCodes[i], contra.conditions[k])

GenerateConditionWarnings(names, icdCodes) ==
    LET applying == SelectSeq(Contraindications,
                        LAMBDA c : ContraindicationApplies(c, names, icdCodes))
    IN  [k \in 1..Len(applying) |->
            [type |-> "contraindication",
             severity |-> applying[k].severity,
             message |-> applying[k].warning,
             drugs |-> applying[k].drugs,
             conditions |-> applying[k].conditions]]

\* the arguments the checks are called with
KbNames ==
    {Warfarin, ToLower(Warfarin), Ibuprofen, Naproxen, Aspirin}
\* drugs prescribed next to the ones under test: none, or a pair with a
\* Moderate pattern of its own
CoPrescribed == {<<>>, <<digoxin, furosemide>>}
KbDrugNameLists ==
    {l \o o : l \in SeqUpTo(KbNames, MaxDrugNames), o \in CoPrescribed}
\* the drugNames arguments of the condition check
KbConditionDrugLists == SeqUpTo(KbNames, MaxDrugNames)
KbIcdLists == SeqUpTo({N183, J45}, MaxIcd)

\* response.data of GET /api/analyze-interactions (drugs, conditions)
ConditionResponses ==
    { [drug_interactions |-> l, condition_warnings |-> <<>>,
       analysis_type |-> "database"] : l \in SeqUpTo(DbRows, 1) }

notKb == <<enhVars, riskVars, dashVars, inputVars, cacheVars, uiVars>>

\* drugService.checkDrugInteractions, up to its await: fewer than two names
\* return an empty result and no request is made
CheckDrugInteractions(names) ==
    /\ kbPc = "idle"
    /\ kbDrugNames' = names
    /\ IF Len(names) < 2
       THEN /\ kbPc' = "interactionsDone"
            /\ kbData' = Some([input_drugs |-> names, interactions_found |-> 0,
                               interactions |-> Some(<<>>), source |-> None])
            /\ UNCHANGED kbRequests
       ELSE /\ kbPc' = "interactions"
            /\ kbRequests' = kbRequests + 1
            /\ UNCHANGED kbData
    /\ UNCHANGED <<kbIcdCodes, notKb>>

\* the GET resolved: the response body is returned as it is
InteractionsRespond(resp) ==
    /\ kbPc = "interactions"
    /\ kbPc' = "interactionsDone"
    /\ kbData' = Some([input_drugs |-> kbDrugNames,
                       interactions_found |-> Len(OrElse(resp, <<>>)),
                       interactions |-> resp, source |-> Some("database")])
    /\ UNCHANGED <<kbDrugNames, kbIcdCodes, kbRequests, notKb>>

\* the GET rejected: the catch answers from generateMockInteractions
InteractionsFail ==
    /\ kbPc = "interactions"
    /\ kbPc' = "interactionsDone"
    /\ kbData' =
          LET interactions == GenerateMockInteractions(kbDrugNames)
          IN  Some([input_drugs |-> kbDrugNames,
                    interactions_found |-> Len(interactions),
                    interactions |-> Some(interactions),
                    source |-> Some("fallback")])
    /\ UNCHANGED <<kbDrugNames, kbIcdCodes, kbRequests, notKb>>

\* drugService.checkDrugConditionInteractions, up to its await
CheckDrugConditionInteractions(names, icdCodes) ==
    /\ kbPc = "idle"
    /\ kbPc' = "conditions"
    /\ kbDrugNames' = names
    /\ kbIcdCodes' = icdCodes
    /\ kbRequests' = kbRequests + 1
    /\ UNCHANGED <<kbData, notKb>>

ConditionsRespond(resp) ==
    /\ kbPc = "conditions"
    /\ kbPc' = "conditionsDone"
    /\ kbData' = Some(resp)
    /\ UNCHANGED <<kbDrugNames, kbIcdCodes, kbRequests, notKb>>

\* the GET rejected: the catch answers from generateConditionWarnings and
\* generateMockInteractions
ConditionsFail ==
    /\ kbPc = "conditions"
    /\ kbPc' = "conditionsDone"
    /\ kbData' = Some([drug_interactions |-> GenerateMockInteractions(kbDrugNames),
                       condition_warnings |->
                            GenerateConditionWarnings(kbDrugNames, kbIcdCodes),
                       analysis_type |-> "fallback"])
    /\ UNCHANGED <<kbDrugNames, kbIcdCodes, kbRequests, notKb>>

KbNext ==
    \/ \E names \in KbDrugNameLists : CheckDrugInteractions(names)
    \/ \E r \in DbResponses : InteractionsRespond(r)
    \/ InteractionsFail
    \/ \E names \in KbConditionDrugLists, icdCodes \in KbIcdLists :
            CheckDrugConditionInteractions(names, icdCodes)
    \/ \E r \in ConditionResponses : ConditionsRespond(r)
    \/ ConditionsFail

SpecKb == Init /\ [][KbNext]_vars


-----------------------------------------------------------------------------
(* Claims about the pattern-matching lookups *)

InteractionsFromFallback ==
    kbPc = "interactionsDone" /\ Get(kbData).source = Some("fallback")
ConditionsFromFallback ==
    kbPc = "conditionsDone" /\ Get(kbData).analysis_type = "fallback"

\* the interaction entries a fallback produced, whichever check ran
FallbackInteractions ==
    IF InteractionsFromFallback THEN Get(Get(kbData).interactions)
    ELSE IF ConditionsFromFallback THEN Get(kbData).drug_interactions
    ELSE <<>>

\* the request's drug names, case-folded
RequestedDrugs == {ToLower(kbDrugNames[i]) : i \in 1..Len(kbDrugNames)}

\* C11: every interaction and every contraindication warning the lookup
\* produced names at least one drug, and each drug it names is (up to case)
\* one of the drug names of the request.
C11_WarningsNameRequestedDrugs ==
    /\ \A k \in 1..Len(FallbackInteractions) :
          {ToLower(FallbackInteractions[k].drug_a),
           ToLower(FallbackInteractions[k].drug_b)} \subseteq RequestedDrugs
    /\ ConditionsFromFallback =>
          \A k \in 1..Len(Get(kbData).condition_warnings) :
              LET drugs == Get(kbData).condition_warnings[k].drugs
              IN  /\ Len(drugs) > 0
                  /\ \A d \in 1..Len(drugs) : ToLower(drugs[d]) \in RequestedDrugs


\* C12: the category entry (any NSAID with any anticoagulant) is produced
\* only when no pattern of interactionPatterns matched the request, so a
\* result never holds both a pattern entry and the category entry.
C12_CategoryOnlyWithoutExactMatch ==
    \A k \in 1..Len(FallbackInteractions) :
        FallbackInteractions[k].source = "category_matching" =>
            /\ \A p \in 1..Len(InteractionPatterns) :
                  ~HasAllDrugs(InteractionPatterns[p], kbDrugNames)
            /\ \A j \in 1..Len(FallbackInteractions) :
                  FallbackInteractions[j].source # "pattern_matching"

\* C12 witness: the request holds an NSAID and an anticoagulant, a pattern
\* matched, and the fallback answered with pattern entries only
C12_Witness ==
    /\ InteractionsFromFallback
    /\ HasNSAID(kbDrugNames)
    /\ HasAnticoagulant(kbDrugNames)
    /\ Len(FallbackInteractions) >= 1
    /\ \A k \in 1..Len(FallbackInteractions) :
          FallbackInteractions[k].source = "pattern_matching"

\* C24: when the fallback lookup is given an NSAID (ibuprofen, diclofenac,
\* naproxen, celecoxib) together with an anticoagulant (warfarin, heparin,
\* rivaroxaban, apixaban), the list it returns holds at least one Major
\* interaction, whatever else is in the input.
C24_NsaidWithAnticoagulantIsMajor ==
    (InteractionsFromFallback \/ ConditionsFromFallback) =>
        ((HasNSAID(kbDrugNames) /\ HasAnticoagulant(kbDrugNames)) =>
            \E k \in 1..Len(FallbackInteractions) :
                FallbackInteractions[k].severity = "Major")

\* the orderings of a list
Orderings(s) ==
    LET n == Len(s)
        bijections == {f \in [1..n -> 1..n] : \A i, j \in 1..n : f[i] = f[j] => i = j}
    IN  {[i \in 1..n |-> s[f[i]]] : f \in bijections}

\* C13: the lookup answers every ordering of the same drug names with the
\* same entries in the same order.
C13_LookupIsOrderIndependent ==
    (InteractionsFromFallback \/ ConditionsFromFallback) =>
        \A other \in Orderings(kbDrugNames) :
            GenerateMockInteractions(other) = FallbackInteractions


-----------------------------------------------------------------------------
(* MedicationInput: adding, quick-adding and removing medications, in the   *)
(* component of MedicationInput.jsx and in its database-backed variant       *)

MaxInputOps == 3    \* handler invocations followed
MaxClock == 1       \* last value Date.now() takes

Daily == <<"d","a","i","l","y">>
Blank == <<" ">>

\* String.prototype.trim
RECURSIVE TrimLeft(_)
TrimLeft(s) == IF s # <<>> /\ Head(s) = " " THEN TrimLeft(Tail(s)) ELSE s
RECURSIVE TrimRight(_)
TrimRight(s) ==
    IF s # <<>> /\ s[Len(s)] = " " THEN TrimRight(SubSeq(s, 1, Len(s) - 1)) ELSE s
Trim(s) == TrimRight(TrimLeft(s))

\* what the add form may hold when its button is pressed
InputForms ==
    { [name |-> n, dosage |-> d, frequency |-> f] :
        n \in {Warfarin, Blank \o Warfarin, ToLower(Warfarin), Ibuprofen, <<>>},
        d \in {Mg5, Blank},
        f \in {Daily} }

\* const commonMedications (three of its six entries)
CommonMedications ==
    { [name |-> Paracetamol, dosage |-> Mg500, frequency |-> Daily],
      [name |-> Ibuprofen, dosage |-> Mg400, frequency |-> Daily],
      [name |-> Metformin, dosage |-> Mg500, frequency |-> Daily] }

\* what drugService.searchDrugs(name, 1) did: found a database name, found
\* nothing, or threw
SearchOutcomes == {<<"hit", Warfarin>>, <<"miss">>, <<"threw">>}

\* the three required-field checks shared by validateMedication and validateForm
RequiredFieldErrors(med) ==
    {f \in {"name", "dosage", "frequency"} : Trim(med[f]) = <<>>}

\* medications.some(existing =>
\*     existing.name.toLowerCase() === med.name.toLowerCase())
IsDuplicate(meds, name) ==
    \E i \in 1..Len(meds) : ToLower(meds[i].name) = ToLower(name)

\* a duplicate test that trims the typed name before comparing
ValidateMedication_Trimmed(meds, med) ==
    RequiredFieldErrors(med)
        \cup (IF IsDuplicate(meds, Trim(med.name)) THEN {"name"} ELSE {})

\* validateMedication: the fields that get an error
ValidateMedication(meds, med) ==
    RequiredFieldErrors(med)
        \cup (IF IsDuplicate(meds, med.name) THEN {"name"} ELSE {})

InputEntry(id, name, dosage, frequency) ==
    [id |-> id, name |-> name, dosage |-> dosage, frequency |-> frequency]

notInput == <<enhVars, riskVars, dashVars, kbVars, cacheVars, uiVars>>

InputStep ==
    /\ inputOps < MaxInputOps
    /\ inputOps' = inputOps + 1
    /\ UNCHANGED notInput

\* Date.now() moves on between two handler invocations
ClockTicks ==
    /\ inputClock < MaxClock
    /\ inputClock' = inputClock + 1
    /\ UNCHANGED <<inputMedications, inputErrors, inputOps, notInput>>

\* MedicationInput.handleAddMedication
HandleAddMedication(form) ==
    /\ InputStep
    /\ LET validationErrors == ValidateMedication(inputMedications, form)
       IN  IF validationErrors # {}
           THEN /\ inputErrors' = validationErrors
                /\ UNCHANGED inputMedications
           ELSE /\ inputMedications' =
                      Append(inputMedications,
                             InputEntry(inputClock, Trim(form.name),
                                        Trim(form.dosage), Trim(form.frequency)))
                /\ inputErrors' = {}
    /\ UNCHANGED inputClock

\* MedicationInput.handleQuickAdd
HandleQuickAdd(commonMed) ==
    /\ InputStep
    /\ IF ~IsDuplicate(inputMedications, commonMed.name)
       THEN inputMedications' =
                Append(inputMedications,
                       InputEntry(inputClock, commonMed.name, commonMed.dosage,
                                  commonMed.frequency))
       ELSE UNCHANGED inputMedications
    /\ UNCHANGED <<inputErrors, inputClock>>

\* handleRemoveMedication / removeMedication: every entry of that id goes
HandleRemoveMedication(medicationId) ==
    /\ InputStep
    /\ inputMedications' =
          SelectSeq(inputMedications, LAMBDA med : med.id # medicationId)
    /\ UNCHANGED <<inputErrors, inputClock>>

\* the variant's addMedication: validateForm, then the name is the database's
\* name on a hit, the typed name on a miss, the trimmed typed name when the
\* search threw; no duplicate test
AddMedication(form, search) ==
    /\ InputStep
    /\ inputErrors' = RequiredFieldErrors(form)
    /\ IF RequiredFieldErrors(form) # {}
       THEN UNCHANGED inputMedications
       ELSE LET name == CASE search[1] = "hit" -> search[2]
                          [] search[1] = "miss" -> form.name
                          [] OTHER -> Trim(form.name)
            IN  inputMedications' =
                    Append(inputMedications,
                           InputEntry(inputClock, name, Trim(form.dosage),
                                      Trim(form.frequency)))
    /\ UNCHANGED inputClock

\* the variant's addCommonMedication: appended without a duplicate test
AddCommonMedication(medication) ==
    /\ InputStep
    /\ inputMedications' =
          Append(inputMedications,
                 InputEntry(inputClock, medication.name, medication.dosage,
                            medication.frequency))
    /\ UNCHANGED <<inputErrors, inputClock>>

\* the handlers of MedicationInput.jsx
InputNext ==
    \/ ClockTicks
    \/ \E form \in InputForms : HandleAddMedication(form)
    \/ \E med \in CommonMedications : HandleQuickAdd(med)
    \/ \E id \in 0..MaxClock : HandleRemoveMedication(id)

SpecInput == Init /\ [][InputNext]_vars

\* the handlers of the database-backed variant
VariantNext ==
    \/ ClockTicks
    \/ \E form \in InputForms, search \in SearchOutcomes : AddMedication(form, search)
    \/ \E med \in CommonMedications : AddCommonMedication(med)
    \/ \E id \in 0..MaxClock : HandleRemoveMedication(id)

SpecInputVariant == Init /\ [][VariantNext]_vars

\* C18: the medication list never holds two entries whose names are equal
\* after case-folding and trimming.
C18_NoDuplicateMedications ==
    \A i, j \in 1..Len(inputMedications) :
        i # j => ToLower(Trim(inputMedications[i].name))
                    # ToLower(Trim(inputMedications[j].name))


-----------------------------------------------------------------------------
(* Dashboard: every analysis ends *)

\* C20: whenever an analysis is in flight, eventually none is and the
\* in-progress flag is false again.
C20_AnalysisEventuallyFinishes ==
    (pending # {}) ~> (pending = {} /\ ~isAnalyzing)

\* C20 witness: an analysis ended by the client timeout, the flag is false
C20_Witness ==
    /\ error = Some(AnalysisTimeoutError)
    /\ pending = {}
    /\ sent >= 1
    /\ ~isAnalyzing


-----------------------------------------------------------------------------
(* The analysis service behind POST /api/analyze-interactions: its code is  *)
(* not in this part of the repository, so the orchestrator and its          *)
(* fingerprint cache follow the specification. The Dashboard is its client. *)

MaxNow == 2     \* last value of the service's clock
CacheTtl == 2   \* time-to-live of a cache entry, in clock units
LlmSeconds == 2 \* processing time reported for an analysis that was computed

\* the medications the service has on record for a patient
ExistingMedicationNames(patientId) ==
    IF patientId = "PC-001" THEN {ToLower(Warfarin)} ELSE {}

\* normalised name: case-folded, trimmed, dosage suffix stripped
NormalizedName(med) == ToLower(SplitFirst(Trim(med)))

\* fingerprint of a request: the set of normalised existing and new
\* medication names and the set of condition codes
Fingerprint(p) ==
    [medications |->
        ExistingMedicationNames(p.patient_id)
            \cup {NormalizedName(p.new_medications[i]) :
                    i \in 1..Len(p.new_medications)},
     conditions |-> {p.diagnoses[i] : i \in 1..Len(p.diagnoses)}]

\* Validating: no medications, or no patient reference
RequestIsMalformed(p) ==
    Len(p.new_medications) = 0 \/ p.patient_id = "unknown"

ComputedResult(p) ==
    [analysed |-> p.new_medications, from_cache |-> FALSE,
     processing_time |-> LlmSeconds]

NoResult == [analysed |-> <<>>, from_cache |-> FALSE, processing_time |-> 0]

Answer(r, rejected, llm, data) ==
    [id |-> r.id, seq |-> Cardinality(answers), rejected |-> rejected,
     key |-> Fingerprint(r.payload), at |-> now, llm |-> llm, data |-> data]

notCache == <<enhVars, riskVars, dashVars, kbVars, inputVars, uiVars>>

\* the orchestrator handles one request: Validating, CacheCheck, then
\* CacheHit -> Done, or CacheMiss -> Gathering -> Merging -> Storing -> Done
OrchestratorAnalyzes(r) ==
    /\ r \in pending
    /\ \A a \in answers : a.id # r.id
    /\ LET key == Fingerprint(r.payload)
           live == {e \in cacheStore : e.key = key /\ e.expiresAt > now}
       IN  IF RequestIsMalformed(r.payload)
           THEN /\ answers' = answers \cup {Answer(r, TRUE, FALSE, NoResult)}
                /\ UNCHANGED <<cacheStore, llmCalls>>
           ELSE IF live # {}
           THEN LET hit == CHOOSE e \in live : TRUE
                IN  /\ answers' = answers \cup
                          {Answer(r, FALSE, FALSE,
                                  [hit.value EXCEPT !.from_cache = TRUE,
                                                    !.processing_time = 0])}
                    /\ UNCHANGED <<cacheStore, llmCalls>>
           ELSE /\ llmCalls' = llmCalls + 1
                /\ cacheStore' =
                      {e \in cacheStore : e.key # key /\ e.expiresAt > now}
                        \cup {[key |-> key, expiresAt |-> now + CacheTtl,
                               value |-> ComputedResult(r.payload)]}
                /\ answers' = answers \cup
                      {Answer(r, FALSE, TRUE, ComputedResult(r.payload))}
    /\ UNCHANGED <<now, notCache>>

TimePasses ==
    /\ now < MaxNow
    /\ now' = now + 1
    /\ UNCHANGED <<cacheStore, llmCalls, answers, notCache>>

\* an Analyze button that stays enabled while isAnalyzing
ClickAnalyze_WhileAnalyzing ==
    /\ Len(medications) # 0
    /\ HandleAnalyze

\* the Analyze button: disabled without medications and while isAnalyzing
ClickAnalyze ==
    /\ Len(medications) # 0
    /\ ~isAnalyzing
    /\ HandleAnalyze

\* the service's answer arrives: a result resolves the POST
ServiceResultArrives(r) ==
    \E a \in answers :
        /\ a.id = r.id
        /\ ~a.rejected
        /\ AnalyzeResolvesWith(r, a.data)

\* the service's answer arrives: a validation error rejects the POST
ServiceErrorArrives(r) ==
    \E a \in answers :
        /\ a.id = r.id
        /\ a.rejected
        /\ AnalyzeRejects(r)

CacheNext ==
    \/ \E m \in MedicationLists : HandleMedicationChange(m)
    \/ ClickAnalyze
    \/ \E r \in pending : OrchestratorAnalyzes(r)
    \/ \E r \in pending : ServiceResultArrives(r)
    \/ \E r \in pending : ServiceErrorArrives(r)
    \/ TimePasses

SpecCache == InitWithPatient /\ [][CacheNext]_vars

-----------------------------------------------------------------------------
(* Dashboard: analyses started from the Analyze button *)

ButtonNext ==
    \/ \E patient \in Patients : HandlePatientSelect(patient)
    \/ \E m \in MedicationLists : HandleMedicationChange(m)
    \/ ClickAnalyze
    \/ \E r \in pending : AnalyzeResolves(r)
    \/ \E r \in pending : AnalyzeRejects(r)
    \/ \E r \in pending : AnalyzeTimesOut(r)

SpecDashboardButton == InitWithPatient /\ [][ButtonNext]_vars

\* C22: at most one analysis request of the Dashboard is in flight at any
\* time, and no analysis request is issued while isAnalyzing is true.
C22_AtMostOneAnalysisInFlight ==
    /\ [](Cardinality(pending) <= 1)
    /\ [][sent' # sent => ~isAnalyzing]_vars

\* C22 witness: a second analysis is in flight, alone, after the first one
\* has finished
C22_Witness ==
    /\ sent = 2
    /\ Cardinality(pending) = 1
    /\ isAnalyzing

-----------------------------------------------------------------------------
(* Dashboard: handlePatientSelect loads the patient's current medications *)

MaxLoads == 3   \* patient selections followed

\* current_medications as the patient endpoint answers them, per patient:
\* a row carries its name as name or as medication_name
RecordedMedications(patient) ==
    IF patient.name = "Budi"
    THEN <<[name |-> Some(Warfarin), medication_name |-> None,
            dosage |-> Some(Mg5)]>>
    ELSE <<[name |-> None, medication_name |-> Some(Ibuprofen),
            dosage |-> None]>>

\* result.current_medications.map(...): name || medication_name, dosage || ""
FormattedMedications(rows) ==
    [i \in 1..Len(rows) |->
        [name |-> IF IsSome(rows[i].name) THEN Get(rows[i].name)
                  ELSE Get(rows[i].medication_name),
         dosage |-> OrElse(rows[i].dosage, <<>>)]]

\* handlePatientSelect up to its await: the patient is selected and the GET
\* for patient.no_rm || patient.id is issued
HandlePatientSelectLoading(patient) ==
    /\ loadsSent < MaxLoads
    /\ selectedPatient' = Some(patient)
    /\ loadsSent' = loadsSent + 1
    /\ loads' = loads \cup {[id |-> loadsSent + 1, patient |-> patient]}
    /\ UNCHANGED <<selectedDiagnosis, medications, interactionResults,
                   isAnalyzing, error, pending, sent, analyzeCalls, loadErrors>>
    /\ UNCHANGED notLoad

\* the GET resolved with current_medications: setMedications(formatted)
MedicationsLoaded(r) ==
    /\ r \in loads
    /\ loads' = loads \ {r}
    /\ medications' = FormattedMedications(RecordedMedications(r.patient))
    /\ UNCHANGED <<selectedPatient, selectedDiagnosis, interactionResults,
                   isAnalyzing, error, pending, sent, analyzeCalls,
                   loadsSent, loadErrors>>
    /\ UNCHANGED notLoad

\* the GET failed: getCurrentMedications answers success: false and the
\* handler resets the list
MedicationsLoadFails(r) ==
    /\ r \in loads
    /\ loads' = loads \ {r}
    /\ loadErrors' = loadErrors + 1
    /\ medications' = <<>>
    /\ UNCHANGED <<selectedPatient, selectedDiagnosis, interactionResults,
                   isAnalyzing, error, pending, sent, analyzeCalls, loadsSent>>
    /\ UNCHANGED notLoad

LoadNext ==
    \/ \E patient \in Patients : HandlePatientSelectLoading(patient)
    \/ \E r \in loads : MedicationsLoaded(r)
    \/ \E r \in loads : MedicationsLoadFails(r)

SpecPatientLoads == Init /\ [][LoadNext]_vars

\* C23: once every medication-loading request has completed (none of them
\* failed), the medication list the Dashboard holds is the list of the
\* patient selected now, in whatever order the answers arrived.
C23_MedicationsOfSelectedPatient ==
    (loads = {} /\ loadsSent > 0 /\ loadErrors = 0) =>
        medications =
            FormattedMedications(RecordedMedications(Get(selectedPatient)))

-----------------------------------------------------------------------------
(* DiagnosisSearch: the debounced search effect *)

MaxEdits == 3       \* changes of the search term followed
MinTermLength == 2  \* searchTerm.length >= 2

SearchFailedError == "Failed to search ICD-10: Network Error"

\* what is typed into the input: the term grows or shrinks, or is replaced
SearchTerms == {<<>>, <<"d">>, <<"d","i">>, <<"d","i","a">>}

\* result.data of GET /api/icd10/search
IcdResponses ==
    {<<>>, <<[code |-> "E11", name_id |-> "Diabetes melitus tipe 2"]>>}

\* an effect whose timers are never cleared
SearchEffect_TimerKept(v) ==
    IF Len(v) >= MinTermLength
    THEN /\ isSearching' = TRUE
         /\ timers' = timers \cup {[id |-> termEdits + 1, term |-> v]}
         /\ timerRef' = Some(termEdits + 1)
         /\ UNCHANGED <<searchResults, isDropdownOpen>>
    ELSE /\ searchResults' = <<>>
         /\ isDropdownOpen' = FALSE
         /\ isSearching' = FALSE
         /\ UNCHANGED <<timers, timerRef>>

\* the effect on [searchTerm] for the term v, after the cleanup of the
\* previous effect has run: the cleanup clears the timer the ref names (a
\* timer that has fired is gone already), then a term of two characters or
\* more sets isSearching and a new timer, a shorter one empties the list
\* and closes the dropdown
SearchEffect(v) ==
    LET live == {t \in timers : Some(t.id) # timerRef}
    IN  IF Len(v) >= MinTermLength
        THEN /\ isSearching' = TRUE
             /\ timers' = live \cup {[id |-> termEdits + 1, term |-> v]}
             /\ timerRef' = Some(termEdits + 1)
             /\ UNCHANGED <<searchResults, isDropdownOpen>>
        ELSE /\ searchResults' = <<>>
             /\ isDropdownOpen' = FALSE
             /\ isSearching' = FALSE
             /\ timers' = live
             /\ UNCHANGED timerRef

\* onChange of the input: setSearchTerm(e.target.value), then the effect
ChangeSearchTerm(v) ==
    /\ termEdits < MaxEdits
    /\ v # searchTerm
    /\ searchTerm' = v
    /\ termEdits' = termEdits + 1
    /\ SearchEffect(v)
    /\ UNCHANGED <<searchError, icdPending, icdSent, notSearch>>

\* a debounce timer fires 300 ms after it was set: the callback calls
\* apiService.searchICD10 with the term its effect closed over
DebounceFires(t) ==
    /\ t \in timers
    /\ timers' = timers \ {t}
    /\ icdSent' = icdSent + 1
    /\ icdPending' = icdPending \cup
                        {[id |-> icdSent + 1, term |-> t.term, timer |-> t.id]}
    /\ UNCHANGED <<searchTerm, searchResults, isSearching, isDropdownOpen,
                   searchError, timerRef, termEdits, notSearch>>

\* a search resolves: the list is replaced, the dropdown opened, the error
\* cleared, then finally
SearchResolves(r, data) ==
    /\ r \in icdPending
    /\ icdPending' = icdPending \ {r}
    /\ searchResults' = data
    /\ isDropdownOpen' = TRUE
    /\ searchError' = None
    /\ isSearching' = FALSE
    /\ UNCHANGED <<searchTerm, timers, timerRef, termEdits, icdSent,
                   notSearch>>

\* a search rejects: the catch, then finally
SearchRejects(r) ==
    /\ r \in icdPending
    /\ icdPending' = icdPending \ {r}
    /\ searchError' = Some(SearchFailedError)
    /\ searchResults' = <<>>
    /\ isSearching' = FALSE
    /\ UNCHANGED <<searchTerm, isDropdownOpen, timers, timerRef, termEdits,
                   icdSent, notSearch>>

\* a mousedown outside the dropdown
HandleClickOutside ==
    /\ isDropdownOpen
    /\ isDropdownOpen' = FALSE
    /\ UNCHANGED <<searchTerm, searchResults, isSearching, searchError,
                   timers, timerRef, termEdits, icdPending, icdSent, notSearch>>

\* a listed diagnosis is clicked: the parent is told, the term is emptied
\* and the dropdown closed; the effect runs if the term has changed
HandleAddDiagnosis ==
    /\ isDropdownOpen
    /\ Len(searchResults) > 0
    /\ IF searchTerm = <<>>
       THEN /\ isDropdownOpen' = FALSE
            /\ UNCHANGED <<searchTerm, searchResults, isSearching, timers,
                           timerRef, termEdits>>
       ELSE /\ termEdits < MaxEdits
            /\ searchTerm' = <<>>
            /\ termEdits' = termEdits + 1
            /\ SearchEffect(<<>>)
    /\ UNCHANGED <<searchError, icdPending, icdSent, notSearch>>

SearchNext ==
    \/ \E v \in SearchTerms : ChangeSearchTerm(v)
    \/ \E t \in timers : DebounceFires(t)
    \/ \E r \in icdPending, data \in IcdResponses : SearchResolves(r, data)
    \/ \E r \in icdPending : SearchRejects(r)
    \/ HandleClickOutside
    \/ HandleAddDiagnosis

SpecSearch == Init /\ [][SearchNext]_vars

\* C25: whenever the search term has fewer than two characters, the result
\* list is empty and the dropdown is closed, also after the answer of an
\* earlier search has arrived.
C25_ShortTermShowsNothing ==
    Len(searchTerm) < MinTermLength =>
        (searchResults = <<>> /\ ~isDropdownOpen)

\* C26: a search request is issued only by the timer of the latest change
\* of the term, for the term the input holds at that moment, and only when
\* that term has at least two characters; the timer of a superseded term
\* never issues one.
C26_RequestOnlyForCurrentTerm ==
    [][icdSent' # icdSent =>
          \A r \in icdPending' \ icdPending :
              /\ r.term = searchTerm
              /\ r.timer = termEdits
              /\ Len(r.term) >= MinTermLength]_vars

\* C26 witness: a term was superseded before its timer fired, and the one
\* request issued is for the term that replaced it
C26_Witness ==
    /\ termEdits >= 2
    /\ icdSent = 1
    /\ \E r \in icdPending : r.term = searchTerm /\ r.timer = termEdits
    /\ timers = {}

-----------------------------------------------------------------------------
(* PatientList: search *)

MaxKeystrokes == 3   \* changes of the search input followed
DebounceMs == 500    \* the delay handleSearch gives setTimeout

ListFetchFailedError == "Gagal mengambil data pasien"

\* what the search input holds after a key
ListTerms == {<<"b">>, <<"b","u">>, <<"b","u"," ">>}

\* the time between two keys, in ms
KeyGaps == {200, 500}

\* data.patients of GET /api/patients/search
ListResponses == {<<>>, <<"Budi">>}

\* fetchPatients up to its await: loading, no error, and the request with
\* q = search.trim() (no q when that is empty)
FetchPatients(search) ==
    /\ listLoading' = TRUE
    /\ listError' = ""
    /\ listPending' = listPending \cup
                        {[id |-> Len(listFetched) + 1, q |-> Trim(search)]}

\* handleSearch: the term is set and a timer of 500 ms is started for the
\* value; the function it returns is not used by anyone, so no earlier
\* timer is cleared. The key comes gap ms after the one before, and every
\* timer due before that moment has fired.
HandleSearch(value, gap) ==
    /\ keystrokes < MaxKeystrokes
    /\ value # listSearchTerm
    /\ \A t \in listTimers : t.due >= listNow + gap
    /\ listNow' = listNow + gap
    /\ listSearchTerm' = value
    /\ listTimers' = listTimers \cup
                        {[id |-> keystrokes + 1, value |-> value,
                          due |-> listNow + gap + DebounceMs]}
    /\ keystrokes' = keystrokes + 1
    /\ lastKeyAt' = Some(listNow + gap)
    /\ closelySpaced' = (closelySpaced /\ (keystrokes = 0 \/ gap < DebounceMs))
    /\ UNCHANGED <<listFetched, listPending, listLoading, listPatients,
                   listError, notList>>

\* a timer fires when it is due, the earliest first: fetchPatients(1, value)
ListTimerFires(t) ==
    /\ t \in listTimers
    /\ \A u \in listTimers : t.due <= u.due
    /\ listTimers' = listTimers \ {t}
    /\ listNow' = IF t.due > listNow THEN t.due ELSE listNow
    /\ listFetched' = Append(listFetched, t.value)
    /\ FetchPatients(t.value)
    /\ UNCHANGED <<listSearchTerm, lastKeyAt, keystrokes, closelySpaced,
                   listPatients, notList>>

\* a fetch resolves with response.ok: the list is replaced, then finally
FetchResolves(r, patients) ==
    /\ r \in listPending
    /\ listPending' = listPending \ {r}
    /\ listPatients' = patients
    /\ listLoading' = FALSE
    /\ UNCHANGED <<listSearchTerm, listTimers, listNow, lastKeyAt, keystrokes,
                   closelySpaced, listFetched, listError, notList>>

\* a fetch fails or answers with !response.ok: the catch, then finally
FetchRejects(r) ==
    /\ r \in listPending
    /\ listPending' = listPending \ {r}
    /\ listError' = ListFetchFailedError
    /\ listLoading' = FALSE
    /\ UNCHANGED <<listSearchTerm, listTimers, listNow, lastKeyAt, keystrokes,
                   closelySpaced, listFetched, listPatients, notList>>

ListNext ==
    \/ \E value \in ListTerms, gap \in KeyGaps : HandleSearch(value, gap)
    \/ \E t \in listTimers : ListTimerFires(t)
    \/ \E r \in listPending, patients \in ListResponses :
            FetchResolves(r, patients)
    \/ \E r \in listPending : FetchRejects(r)

SpecList == Init /\ [][ListNext]_vars

\* C27: when several characters were typed, each less than 500 ms after the
\* one before, and every timer has run out, the search has fetched the
\* patients exactly once, for the final search term.
C27_SearchIsDebounced ==
    (keystrokes >= 2 /\ closelySpaced /\ listTimers = {}) =>
        listFetched = <<listSearchTerm>>

-----------------------------------------------------------------------------
(* SaveDiagnosisButton, as the Dashboard renders it next to a result *)

MaxSaves == 2   \* save requests followed

NoPatientSelectedError == "Tidak ada pasien yang dipilih"
SaveFailedError == "Gagal menyimpan diagnosis"

\* what is typed into the notes textarea
ClinicalNotes == {"", "kontrol 1 minggu", "rujuk ke penyakit dalam"}

\* the Dashboard holding an analysis result: a patient chosen or not, a
\* medication list and the analysis of that list
InitWithAnalysis ==
    /\ EnhInit /\ RiskIdle /\ KbIdle /\ InputIdle /\ CacheIdle /\ UiIdle
    /\ selectedPatient \in {None} \cup {Some(x) : x \in Patients}
    /\ selectedDiagnosis = None
    /\ medications \in MedicationLists \ {<<>>}
    /\ interactionResults =
          Some(AnalysisOf(BuildPayload(selectedPatient, selectedDiagnosis,
                                       medications)))
    /\ isAnalyzing = FALSE
    /\ error = None
    /\ pending = {}
    /\ sent = 1
    /\ analyzeCalls = 1

\* the Dashboard's handleSaveDiagnosisSuccess: the toast, then the working
\* state is cleared
HandleSaveDiagnosisSuccess ==
    /\ selectedPatient' = None
    /\ selectedDiagnosis' = None
    /\ medications' = <<>>
    /\ interactionResults' = None
    /\ error' = None
    /\ UNCHANGED <<isAnalyzing, pending, sent, analyzeCalls>>

\* the Simpan Diagnosis button: disabled without a selected patient
HandleOpenModal ==
    /\ IsSome(interactionResults) /\ ~IsSome(error)
    /\ IsSome(selectedPatient)
    /\ ~showModal
    /\ showModal' = TRUE
    /\ saveError' = ""
    /\ UNCHANGED <<notes, saving, savePending, savesSent, dashVars, regVars,
                   notSave>>

\* the notes textarea: disabled while saving
ChangeNotes(v) ==
    /\ showModal /\ ~saving
    /\ v # notes
    /\ notes' = v
    /\ UNCHANGED <<showModal, saving, saveError, savePending, savesSent,
                   dashVars, regVars, notSave>>

\* a save button that stays enabled while saving
ClickSave_WhileSaving ==
    /\ showModal
    /\ savesSent < MaxSaves
    /\ IF ~IsSome(selectedPatient)
       THEN /\ saveError' = NoPatientSelectedError
            /\ UNCHANGED <<saving, savePending, savesSent>>
       ELSE /\ saving' = TRUE
            /\ saveError' = ""
            /\ savesSent' = savesSent + 1
            /\ savePending' = savePending \cup {[id |-> savesSent + 1]}
    /\ UNCHANGED <<showModal, notes, dashVars, regVars, notSave>>

\* the modal's save button (disabled while saving or without a patient)
\* and handleSave up to its await
ClickSave ==
    /\ showModal
    /\ ~saving /\ IsSome(selectedPatient)
    /\ savesSent < MaxSaves
    /\ IF ~IsSome(selectedPatient)
       THEN /\ saveError' = NoPatientSelectedError
            /\ UNCHANGED <<saving, savePending, savesSent>>
       ELSE /\ saving' = TRUE
            /\ saveError' = ""
            /\ savesSent' = savesSent + 1
            /\ savePending' = savePending \cup {[id |-> savesSent + 1]}
    /\ UNCHANGED <<showModal, notes, dashVars, regVars, notSave>>

\* the close buttons (disabled while saving) and handleCloseModal, which
\* returns at once while saving
HandleCloseModal ==
    /\ showModal
    /\ ~saving
    /\ showModal' = FALSE
    /\ notes' = ""
    /\ saveError' = ""
    /\ UNCHANGED <<saving, savePending, savesSent, dashVars, regVars,
                   notSave>>

\* the POST resolved with response.ok: the modal closes, the notes are
\* cleared, onSuccess(result) runs in the Dashboard, then finally
SaveResolves(r) ==
    /\ r \in savePending
    /\ savePending' = savePending \ {r}
    /\ showModal' = FALSE
    /\ notes' = ""
    /\ HandleSaveDiagnosisSuccess
    /\ saving' = FALSE
    /\ UNCHANGED <<saveError, savesSent, regVars, notSave>>

\* the POST failed or answered !response.ok: the catch, then finally
SaveRejects(r) ==
    /\ r \in savePending
    /\ savePending' = savePending \ {r}
    /\ saveError' = SaveFailedError
    /\ saving' = FALSE
    /\ UNCHANGED <<showModal, notes, savesSent, dashVars, regVars, notSave>>

\* the modal is a fixed layer over the whole page: the Dashboard's own
\* controls are reached only while it is closed
SelectPatientBehindModal(patient) == ~showModal /\ HandlePatientSelect(patient)
ChangeMedicationsBehindModal(m) == ~showModal /\ HandleMedicationChange(m)

SaveNext ==
    \/ \E patient \in Patients : SelectPatientBehindModal(patient)
    \/ \E m \in MedicationLists : ChangeMedicationsBehindModal(m)
    \/ HandleOpenModal
    \/ \E v \in ClinicalNotes : ChangeNotes(v)
    \/ ClickSave
    \/ HandleCloseModal
    \/ \E r \in savePending : SaveResolves(r)
    \/ \E r \in savePending : SaveRejects(r)

SpecSave == InitWithAnalysis /\ [][SaveNext]_vars

-----------------------------------------------------------------------------
(* Dashboard tabs and PatientRegistrationForm *)

MaxRegistrations == 2   \* registration requests followed

RegistrationInvalidError == "Nomor rekam medis wajib diisi"
RegistrationFailedError == "Gagal membuat pasien baru"

\* the tabs of renderContent that show a PatientRegistrationForm, and the
\* others
FormTabs == {"patient-registration", "patients", "register"}
Tabs == FormTabs \cup {"dashboard", "drug-analysis"}

\* the onSuccess prop renderContent gives the form on a tab
OnSuccessOf(tab) ==
    IF tab = "register" THEN "handleRegistrationSuccess"
    ELSE "handleSaveDiagnosisSuccess"

\* handleTabChange; the form of the tab left is unmounted and the one of
\* the tab entered starts with fresh state, while requests and timers of
\* the old one go on
HandleTabChange(newTab) ==
    /\ newTab # activeTab
    /\ activeTab' = newTab
    /\ regLoading' = FALSE
    /\ regError' = ""
    /\ regSuccess' = FALSE
    /\ UNCHANGED <<showRegistrationForm, regPending, regTimers, regSent,
                   registered, dashVars, saveVars, notSave>>

\* handleAddPatient, from the patient list of the "patients" tab
HandleAddPatient ==
    /\ activeTab = "patients"
    /\ showRegistrationForm' = TRUE
    /\ activeTab' = "register"
    /\ regLoading' = FALSE
    /\ regError' = ""
    /\ regSuccess' = FALSE
    /\ UNCHANGED <<regPending, regTimers, regSent, registered, dashVars,
                   saveVars, notSave>>

\* handleSubmit up to its await: validateForm, then the POST
HandleSubmit(valid) ==
    /\ activeTab \in FormTabs
    /\ ~regLoading /\ ~regSuccess
    /\ regSent < MaxRegistrations
    /\ IF ~valid
       THEN /\ regError' = RegistrationInvalidError
            /\ UNCHANGED <<regLoading, regPending, regSent>>
       ELSE /\ regLoading' = TRUE
            /\ regError' = ""
            /\ regSent' = regSent + 1
            /\ regPending' = regPending \cup
                    {[id |-> regSent + 1, onSuccess |-> OnSuccessOf(activeTab),
                      tab |-> activeTab]}
    /\ UNCHANGED <<activeTab, showRegistrationForm, regSuccess, regTimers,
                   registered, dashVars, saveVars, notSave>>

\* the POST resolved with response.ok: setSuccess(true) and the timer for
\* onSuccess(result), then finally (state is set only on a form that is
\* still mounted)
RegistrationResolves(r) ==
    /\ r \in regPending
    /\ regPending' = regPending \ {r}
    /\ regTimers' = regTimers \cup {r}
    /\ IF activeTab = r.tab
       THEN regSuccess' = TRUE /\ regLoading' = FALSE
       ELSE UNCHANGED <<regSuccess, regLoading>>
    /\ UNCHANGED <<activeTab, showRegistrationForm, regError, regSent,
                   registered, dashVars, saveVars, notSave>>

\* the POST failed or answered !response.ok: the catch, then finally
RegistrationRejects(r) ==
    /\ r \in regPending
    /\ regPending' = regPending \ {r}
    /\ IF activeTab = r.tab
       THEN regError' = RegistrationFailedError /\ regLoading' = FALSE
       ELSE UNCHANGED <<regError, regLoading>>
    /\ UNCHANGED <<activeTab, showRegistrationForm, regSuccess, regTimers,
                   regSent, registered, dashVars, saveVars, notSave>>

\* the Dashboard's handleRegistrationSuccess
HandleRegistrationSuccess ==
    /\ showRegistrationForm' = FALSE
    /\ activeTab' = "patients"
    /\ UNCHANGED dashVars

\* 1500 ms after the success: onSuccess(result), the handler the form was
\* given
RegistrationCompletes(t) ==
    /\ t \in regTimers
    /\ regTimers' = regTimers \ {t}
    /\ registered' = registered + 1
    /\ IF t.onSuccess = "handleRegistrationSuccess"
       THEN HandleRegistrationSuccess
       ELSE HandleSaveDiagnosisSuccess
            /\ UNCHANGED <<activeTab, showRegistrationForm>>
    /\ UNCHANGED <<regLoading, regError, regSuccess, regPending, regSent,
                   saveVars, notSave>>

RegistrationNext ==
    \/ \E newTab \in Tabs : HandleTabChange(newTab)
    \/ HandleAddPatient
    \/ \E valid \in BOOLEAN : HandleSubmit(valid)
    \/ \E r \in regPending : RegistrationResolves(r)
    \/ \E r \in regPending : RegistrationRejects(r)
    \/ \E t \in regTimers : RegistrationCompletes(t)

SpecRegistration == InitWithAnalysis /\ [][RegistrationNext]_vars

\* C29: the step that completes a patient registration leaves the
\* Dashboard's drug-analysis working state as it was: the selected patient,
\* the selected diagnosis, the medication list and the analysis result.
C29_RegistrationKeepsWorkingState ==
    [][registered' # registered =>
          UNCHANGED <<selectedPatient, selectedDiagnosis, medications,
                      interactionResults>>]_vars

=============================================================================
